---- MODULE Spec2Model ----
(***************************************************************************)
(* Model of src/download_wiki_revisions_VL2.py: the revision downloader.   *)
(*                                                                         *)
(* A text handed to BeautifulSoup is modelled by what the program reads    *)
(* from it: a record whose fields are the elements soup.find can find      *)
(* (field present = element present, field value = element text).  A text  *)
(* is named by a TLA+ string; where the program looks inside a text        *)
(* (strptime, the path join) it is the sequence of its characters, each a  *)
(* one-character string; a character outside ASCII, and one a TLA+ string  *)
(* cannot hold (code 0, the grave accent), is written "{U+", its code      *)
(* point in hexadecimal and "}".  A path is the sequence of its parts      *)
(* (pathlib's `parts`), each part a sequence of characters.  The file      *)
(* store is the set of directories and the map from file paths to file     *)
(* contents.                                                               *)
(***************************************************************************)
EXTENDS Integers, Sequences, FiniteSets, TLC

VARIABLES
    page,           \* main's argument `page`
    data_dir,       \* main's argument `data_dir`
    folders,        \* main's argument `folders` (args.count_folders)
    encoding,       \* the locale's encoding of the run: open() is given none
    raw_revisions,  \* main's local `raw_revisions`: the downloaded text
    idx,            \* position of the for loop in the parsed revisions
    fs,             \* the file store: [dirs, files]
    fs0,            \* the file store as it was when main was called
    pc,             \* where main is: idle, validate, loop, done, failed
    err,            \* the exception that ended the run ("" = none)
    result          \* what the final print reports: <<>> or <<count>>

vars == <<page, data_dir, folders, encoding, raw_revisions, idx, fs, fs0, pc, err, result>>

\* ------------------------------------------------------------------ bounds

\* Longest revision list of a downloaded document.
MaxRevs == 3

\* ------------------------------------------------------- strings and numbers

\* The characters the regular expression class \d matches in a str pattern:
\* the decimal digits of Unicode 14.0 (Python 3.11), one row per script, each
\* row in the order of the digits' values.  Row 1 is ASCII.
DecimalDigits == <<
    <<"0", "1", "2", "3", "4", "5", "6", "7", "8", "9">>,
    <<"{U+0660}", "{U+0661}", "{U+0662}", "{U+0663}", "{U+0664}", "{U+0665}", "{U+0666}", "{U+0667}", "{U+0668}", "{U+0669}">>,
    <<"{U+06F0}", "{U+06F1}", "{U+06F2}", "{U+06F3}", "{U+06F4}", "{U+06F5}", "{U+06F6}", "{U+06F7}", "{U+06F8}", "{U+06F9}">>,
    <<"{U+07C0}", "{U+07C1}", "{U+07C2}", "{U+07C3}", "{U+07C4}", "{U+07C5}", "{U+07C6}", "{U+07C7}", "{U+07C8}", "{U+07C9}">>,
    <<"{U+0966}", "{U+0967}", "{U+0968}", "{U+0969}", "{U+096A}", "{U+096B}", "{U+096C}", "{U+096D}", "{U+096E}", "{U+096F}">>,
    <<"{U+09E6}", "{U+09E7}", "{U+09E8}", "{U+09E9}", "{U+09EA}", "{U+09EB}", "{U+09EC}", "{U+09ED}", "{U+09EE}", "{U+09EF}">>,
    <<"{U+0A66}", "{U+0A67}", "{U+0A68}", "{U+0A69}", "{U+0A6A}", "{U+0A6B}", "{U+0A6C}", "{U+0A6D}", "{U+0A6E}", "{U+0A6F}">>,
    <<"{U+0AE6}", "{U+0AE7}", "{U+0AE8}", "{U+0AE9}", "{U+0AEA}", "{U+0AEB}", "{U+0AEC}", "{U+0AED}", "{U+0AEE}", "{U+0AEF}">>,
    <<"{U+0B66}", "{U+0B67}", "{U+0B68}", "{U+0B69}", "{U+0B6A}", "{U+0B6B}", "{U+0B6C}", "{U+0B6D}", "{U+0B6E}", "{U+0B6F}">>,
    <<"{U+0BE6}", "{U+0BE7}", "{U+0BE8}", "{U+0BE9}", "{U+0BEA}", "{U+0BEB}", "{U+0BEC}", "{U+0BED}", "{U+0BEE}", "{U+0BEF}">>,
    <<"{U+0C66}", "{U+0C67}", "{U+0C68}", "{U+0C69}", "{U+0C6A}", "{U+0C6B}", "{U+0C6C}", "{U+0C6D}", "{U+0C6E}", "{U+0C6F}">>,
    <<"{U+0CE6}", "{U+0CE7}", "{U+0CE8}", "{U+0CE9}", "{U+0CEA}", "{U+0CEB}", "{U+0CEC}", "{U+0CED}", "{U+0CEE}", "{U+0CEF}">>,
    <<"{U+0D66}", "{U+0D67}", "{U+0D68}", "{U+0D69}", "{U+0D6A}", "{U+0D6B}", "{U+0D6C}", "{U+0D6D}", "{U+0D6E}", "{U+0D6F}">>,
    <<"{U+0DE6}", "{U+0DE7}", "{U+0DE8}", "{U+0DE9}", "{U+0DEA}", "{U+0DEB}", "{U+0DEC}", "{U+0DED}", "{U+0DEE}", "{U+0DEF}">>,
    <<"{U+0E50}", "{U+0E51}", "{U+0E52}", "{U+0E53}", "{U+0E54}", "{U+0E55}", "{U+0E56}", "{U+0E57}", "{U+0E58}", "{U+0E59}">>,
    <<"{U+0ED0}", "{U+0ED1}", "{U+0ED2}", "{U+0ED3}", "{U+0ED4}", "{U+0ED5}", "{U+0ED6}", "{U+0ED7}", "{U+0ED8}", "{U+0ED9}">>,
    <<"{U+0F20}", "{U+0F21}", "{U+0F22}", "{U+0F23}", "{U+0F24}", "{U+0F25}", "{U+0F26}", "{U+0F27}", "{U+0F28}", "{U+0F29}">>,
    <<"{U+1040}", "{U+1041}", "{U+1042}", "{U+1043}", "{U+1044}", "{U+1045}", "{U+1046}", "{U+1047}", "{U+1048}", "{U+1049}">>,
    <<"{U+1090}", "{U+1091}", "{U+1092}", "{U+1093}", "{U+1094}", "{U+1095}", "{U+1096}", "{U+1097}", "{U+1098}", "{U+1099}">>,
    <<"{U+17E0}", "{U+17E1}", "{U+17E2}", "{U+17E3}", "{U+17E4}", "{U+17E5}", "{U+17E6}", "{U+17E7}", "{U+17E8}", "{U+17E9}">>,
    <<"{U+1810}", "{U+1811}", "{U+1812}", "{U+1813}", "{U+1814}", "{U+1815}", "{U+1816}", "{U+1817}", "{U+1818}", "{U+1819}">>,
    <<"{U+1946}", "{U+1947}", "{U+1948}", "{U+1949}", "{U+194A}", "{U+194B}", "{U+194C}", "{U+194D}", "{U+194E}", "{U+194F}">>,
    <<"{U+19D0}", "{U+19D1}", "{U+19D2}", "{U+19D3}", "{U+19D4}", "{U+19D5}", "{U+19D6}", "{U+19D7}", "{U+19D8}", "{U+19D9}">>,
    <<"{U+1A80}", "{U+1A81}", "{U+1A82}", "{U+1A83}", "{U+1A84}", "{U+1A85}", "{U+1A86}", "{U+1A87}", "{U+1A88}", "{U+1A89}">>,
    <<"{U+1A90}", "{U+1A91}", "{U+1A92}", "{U+1A93}", "{U+1A94}", "{U+1A95}", "{U+1A96}", "{U+1A97}", "{U+1A98}", "{U+1A99}">>,
    <<"{U+1B50}", "{U+1B51}", "{U+1B52}", "{U+1B53}", "{U+1B54}", "{U+1B55}", "{U+1B56}", "{U+1B57}", "{U+1B58}", "{U+1B59}">>,
    <<"{U+1BB0}", "{U+1BB1}", "{U+1BB2}", "{U+1BB3}", "{U+1BB4}", "{U+1BB5}", "{U+1BB6}", "{U+1BB7}", "{U+1BB8}", "{U+1BB9}">>,
    <<"{U+1C40}", "{U+1C41}", "{U+1C42}", "{U+1C43}", "{U+1C44}", "{U+1C45}", "{U+1C46}", "{U+1C47}", "{U+1C48}", "{U+1C49}">>,
    <<"{U+1C50}", "{U+1C51}", "{U+1C52}", "{U+1C53}", "{U+1C54}", "{U+1C55}", "{U+1C56}", "{U+1C57}", "{U+1C58}", "{U+1C59}">>,
    <<"{U+A620}", "{U+A621}", "{U+A622}", "{U+A623}", "{U+A624}", "{U+A625}", "{U+A626}", "{U+A627}", "{U+A628}", "{U+A629}">>,
    <<"{U+A8D0}", "{U+A8D1}", "{U+A8D2}", "{U+A8D3}", "{U+A8D4}", "{U+A8D5}", "{U+A8D6}", "{U+A8D7}", "{U+A8D8}", "{U+A8D9}">>,
    <<"{U+A900}", "{U+A901}", "{U+A902}", "{U+A903}", "{U+A904}", "{U+A905}", "{U+A906}", "{U+A907}", "{U+A908}", "{U+A909}">>,
    <<"{U+A9D0}", "{U+A9D1}", "{U+A9D2}", "{U+A9D3}", "{U+A9D4}", "{U+A9D5}", "{U+A9D6}", "{U+A9D7}", "{U+A9D8}", "{U+A9D9}">>,
    <<"{U+A9F0}", "{U+A9F1}", "{U+A9F2}", "{U+A9F3}", "{U+A9F4}", "{U+A9F5}", "{U+A9F6}", "{U+A9F7}", "{U+A9F8}", "{U+A9F9}">>,
    <<"{U+AA50}", "{U+AA51}", "{U+AA52}", "{U+AA53}", "{U+AA54}", "{U+AA55}", "{U+AA56}", "{U+AA57}", "{U+AA58}", "{U+AA59}">>,
    <<"{U+ABF0}", "{U+ABF1}", "{U+ABF2}", "{U+ABF3}", "{U+ABF4}", "{U+ABF5}", "{U+ABF6}", "{U+ABF7}", "{U+ABF8}", "{U+ABF9}">>,
    <<"{U+FF10}", "{U+FF11}", "{U+FF12}", "{U+FF13}", "{U+FF14}", "{U+FF15}", "{U+FF16}", "{U+FF17}", "{U+FF18}", "{U+FF19}">>,
    <<"{U+104A0}", "{U+104A1}", "{U+104A2}", "{U+104A3}", "{U+104A4}", "{U+104A5}", "{U+104A6}", "{U+104A7}", "{U+104A8}", "{U+104A9}">>,
    <<"{U+10D30}", "{U+10D31}", "{U+10D32}", "{U+10D33}", "{U+10D34}", "{U+10D35}", "{U+10D36}", "{U+10D37}", "{U+10D38}", "{U+10D39}">>,
    <<"{U+11066}", "{U+11067}", "{U+11068}", "{U+11069}", "{U+1106A}", "{U+1106B}", "{U+1106C}", "{U+1106D}", "{U+1106E}", "{U+1106F}">>,
    <<"{U+110F0}", "{U+110F1}", "{U+110F2}", "{U+110F3}", "{U+110F4}", "{U+110F5}", "{U+110F6}", "{U+110F7}", "{U+110F8}", "{U+110F9}">>,
    <<"{U+11136}", "{U+11137}", "{U+11138}", "{U+11139}", "{U+1113A}", "{U+1113B}", "{U+1113C}", "{U+1113D}", "{U+1113E}", "{U+1113F}">>,
    <<"{U+111D0}", "{U+111D1}", "{U+111D2}", "{U+111D3}", "{U+111D4}", "{U+111D5}", "{U+111D6}", "{U+111D7}", "{U+111D8}", "{U+111D9}">>,
    <<"{U+112F0}", "{U+112F1}", "{U+112F2}", "{U+112F3}", "{U+112F4}", "{U+112F5}", "{U+112F6}", "{U+112F7}", "{U+112F8}", "{U+112F9}">>,
    <<"{U+11450}", "{U+11451}", "{U+11452}", "{U+11453}", "{U+11454}", "{U+11455}", "{U+11456}", "{U+11457}", "{U+11458}", "{U+11459}">>,
    <<"{U+114D0}", "{U+114D1}", "{U+114D2}", "{U+114D3}", "{U+114D4}", "{U+114D5}", "{U+114D6}", "{U+114D7}", "{U+114D8}", "{U+114D9}">>,
    <<"{U+11650}", "{U+11651}", "{U+11652}", "{U+11653}", "{U+11654}", "{U+11655}", "{U+11656}", "{U+11657}", "{U+11658}", "{U+11659}">>,
    <<"{U+116C0}", "{U+116C1}", "{U+116C2}", "{U+116C3}", "{U+116C4}", "{U+116C5}", "{U+116C6}", "{U+116C7}", "{U+116C8}", "{U+116C9}">>,
    <<"{U+11730}", "{U+11731}", "{U+11732}", "{U+11733}", "{U+11734}", "{U+11735}", "{U+11736}", "{U+11737}", "{U+11738}", "{U+11739}">>,
    <<"{U+118E0}", "{U+118E1}", "{U+118E2}", "{U+118E3}", "{U+118E4}", "{U+118E5}", "{U+118E6}", "{U+118E7}", "{U+118E8}", "{U+118E9}">>,
    <<"{U+11950}", "{U+11951}", "{U+11952}", "{U+11953}", "{U+11954}", "{U+11955}", "{U+11956}", "{U+11957}", "{U+11958}", "{U+11959}">>,
    <<"{U+11C50}", "{U+11C51}", "{U+11C52}", "{U+11C53}", "{U+11C54}", "{U+11C55}", "{U+11C56}", "{U+11C57}", "{U+11C58}", "{U+11C59}">>,
    <<"{U+11D50}", "{U+11D51}", "{U+11D52}", "{U+11D53}", "{U+11D54}", "{U+11D55}", "{U+11D56}", "{U+11D57}", "{U+11D58}", "{U+11D59}">>,
    <<"{U+11DA0}", "{U+11DA1}", "{U+11DA2}", "{U+11DA3}", "{U+11DA4}", "{U+11DA5}", "{U+11DA6}", "{U+11DA7}", "{U+11DA8}", "{U+11DA9}">>,
    <<"{U+16A60}", "{U+16A61}", "{U+16A62}", "{U+16A63}", "{U+16A64}", "{U+16A65}", "{U+16A66}", "{U+16A67}", "{U+16A68}", "{U+16A69}">>,
    <<"{U+16AC0}", "{U+16AC1}", "{U+16AC2}", "{U+16AC3}", "{U+16AC4}", "{U+16AC5}", "{U+16AC6}", "{U+16AC7}", "{U+16AC8}", "{U+16AC9}">>,
    <<"{U+16B50}", "{U+16B51}", "{U+16B52}", "{U+16B53}", "{U+16B54}", "{U+16B55}", "{U+16B56}", "{U+16B57}", "{U+16B58}", "{U+16B59}">>,
    <<"{U+1D7CE}", "{U+1D7CF}", "{U+1D7D0}", "{U+1D7D1}", "{U+1D7D2}", "{U+1D7D3}", "{U+1D7D4}", "{U+1D7D5}", "{U+1D7D6}", "{U+1D7D7}">>,
    <<"{U+1D7D8}", "{U+1D7D9}", "{U+1D7DA}", "{U+1D7DB}", "{U+1D7DC}", "{U+1D7DD}", "{U+1D7DE}", "{U+1D7DF}", "{U+1D7E0}", "{U+1D7E1}">>,
    <<"{U+1D7E2}", "{U+1D7E3}", "{U+1D7E4}", "{U+1D7E5}", "{U+1D7E6}", "{U+1D7E7}", "{U+1D7E8}", "{U+1D7E9}", "{U+1D7EA}", "{U+1D7EB}">>,
    <<"{U+1D7EC}", "{U+1D7ED}", "{U+1D7EE}", "{U+1D7EF}", "{U+1D7F0}", "{U+1D7F1}", "{U+1D7F2}", "{U+1D7F3}", "{U+1D7F4}", "{U+1D7F5}">>,
    <<"{U+1D7F6}", "{U+1D7F7}", "{U+1D7F8}", "{U+1D7F9}", "{U+1D7FA}", "{U+1D7FB}", "{U+1D7FC}", "{U+1D7FD}", "{U+1D7FE}", "{U+1D7FF}">>,
    <<"{U+1E140}", "{U+1E141}", "{U+1E142}", "{U+1E143}", "{U+1E144}", "{U+1E145}", "{U+1E146}", "{U+1E147}", "{U+1E148}", "{U+1E149}">>,
    <<"{U+1E2F0}", "{U+1E2F1}", "{U+1E2F2}", "{U+1E2F3}", "{U+1E2F4}", "{U+1E2F5}", "{U+1E2F6}", "{U+1E2F7}", "{U+1E2F8}", "{U+1E2F9}">>,
    <<"{U+1E950}", "{U+1E951}", "{U+1E952}", "{U+1E953}", "{U+1E954}", "{U+1E955}", "{U+1E956}", "{U+1E957}", "{U+1E958}", "{U+1E959}">>,
    <<"{U+1FBF0}", "{U+1FBF1}", "{U+1FBF2}", "{U+1FBF3}", "{U+1FBF4}", "{U+1FBF5}", "{U+1FBF6}", "{U+1FBF7}", "{U+1FBF8}", "{U+1FBF9}">> >>

Digits == DecimalDigits[1]

\* The class \d
AnyDigit == {DecimalDigits[r][d] : r \in DOMAIN DecimalDigits, d \in 1..10}

IsDigit(c) == c \in AnyDigit

\* The value int() gives the digit.
DigitVal(c) ==
    (CHOOSE d \in 1..10 : \E r \in DOMAIN DecimalDigits : DecimalDigits[r][d] = c) - 1

\* The ASCII class [lo-hi] of a pattern.
AsciiDigits(lo, hi) == {Digits[d + 1] : d \in lo..hi}

\* The character of s at position i, "" past the end.
At(s, i) == IF i >= 1 /\ i <= Len(s) THEN s[i] ELSE ""

\* Python's str(n) for n >= 0
RECURSIVE str(_)
str(n) == IF n < 10 THEN <<Digits[n + 1]>>
          ELSE str(n \div 10) \o <<Digits[(n % 10) + 1]>>

\* Python's str.zfill: pad on the left with "0" up to the width.
RECURSIVE zfill(_, _)
zfill(s, width) == IF Len(s) >= width THEN s ELSE zfill(<<"0">> \o s, width)

\* The characters of each sample text, a character outside ASCII one element.
Spelling ==
    ("2020-01-15T10:00:00Z" :> <<"2", "0", "2", "0", "-", "0", "1", "-", "1", "5", "T", "1", "0", ":", "0", "0", ":", "0", "0", "Z">>)
    @@ ("2020-1-05T09:30:00Z" :> <<"2", "0", "2", "0", "-", "1", "-", "0", "5", "T", "0", "9", ":", "3", "0", ":", "0", "0", "Z">>)
    @@ ("2020-02-03T08:15:30Z" :> <<"2", "0", "2", "0", "-", "0", "2", "-", "0", "3", "T", "0", "8", ":", "1", "5", ":", "3", "0", "Z">>)
    @@ ("2020-2-29T23:59:5{U+0669}Z" :> <<"2", "0", "2", "0", "-", "2", "-", "2", "9", "T", "2", "3", ":", "5", "9", ":", "5", "{U+0669}", "Z">>)
    @@ ("2021-11-30T00:00:00Z" :> <<"2", "0", "2", "1", "-", "1", "1", "-", "3", "0", "T", "0", "0", ":", "0", "0", ":", "0", "0", "Z">>)
    @@ ("2020-13-01T00:00:00Z" :> <<"2", "0", "2", "0", "-", "1", "3", "-", "0", "1", "T", "0", "0", ":", "0", "0", ":", "0", "0", "Z">>)
    @@ ("2021-02-30T00:00:00Z" :> <<"2", "0", "2", "1", "-", "0", "2", "-", "3", "0", "T", "0", "0", ":", "0", "0", ":", "0", "0", "Z">>)
    @@ ("2020-01-15T10:00:00Z " :> <<"2", "0", "2", "0", "-", "0", "1", "-", "1", "5", "T", "1", "0", ":", "0", "0", ":", "0", "0", "Z", " ">>)
    @@ ("120" :> <<"1", "2", "0">>)
    @@ ("15/01/2020" :> <<"1", "5", "/", "0", "1", "/", "2", "0", "2", "0">>)
    @@ ("2020-01-15T10:00:00" :> <<"2", "0", "2", "0", "-", "0", "1", "-", "1", "5", "T", "1", "0", ":", "0", "0", ":", "0", "0">>)
    @@ ("{U+FF12}{U+FF10}{U+FF12}{U+FF10}-01-15T10:00:00Z" :> <<"{U+FF12}", "{U+FF10}", "{U+FF12}", "{U+FF10}", "-", "0", "1", "-", "1", "5", "T", "1", "0", ":", "0", "0", ":", "0", "0", "Z">>)
    @@ ("2020-03-1{U+0663}T0{U+0663}:{U+0663}:0{U+0663}Z" :> <<"2", "0", "2", "0", "-", "0", "3", "-", "1", "{U+0663}", "T", "0", "{U+0663}", ":", "{U+0663}", ":", "0", "{U+0663}", "Z">>)
    @@ ("2020-{U+0660}1-15T10:00:00Z" :> <<"2", "0", "2", "0", "-", "{U+0660}", "1", "-", "1", "5", "T", "1", "0", ":", "0", "0", ":", "0", "0", "Z">>)
    @@ ("2020-01-15t10:00:00z" :> <<"2", "0", "2", "0", "-", "0", "1", "-", "1", "5", "t", "1", "0", ":", "0", "0", ":", "0", "0", "z">>)
    @@ ("2020-01- 5T10:00:00Z" :> <<"2", "0", "2", "0", "-", "0", "1", "-", " ", "5", "T", "1", "0", ":", "0", "0", ":", "0", "0", "Z">>)
    @@ ("2020-01-15T10:00:00ZZ" :> <<"2", "0", "2", "0", "-", "0", "1", "-", "1", "5", "T", "1", "0", ":", "0", "0", ":", "0", "0", "Z", "Z">>)
    @@ ("2020-01-15T10:00:60Z" :> <<"2", "0", "2", "0", "-", "0", "1", "-", "1", "5", "T", "1", "0", ":", "0", "0", ":", "6", "0", "Z">>)
    @@ ("0000-01-15T10:00:00Z" :> <<"0", "0", "0", "0", "-", "0", "1", "-", "1", "5", "T", "1", "0", ":", "0", "0", ":", "0", "0", "Z">>)
    @@ ("2020-01-15T24:00:00Z" :> <<"2", "0", "2", "0", "-", "0", "1", "-", "1", "5", "T", "2", "4", ":", "0", "0", ":", "0", "0", "Z">>)
    @@ ("0005-01-15T10:00:00Z" :> <<"0", "0", "0", "5", "-", "0", "1", "-", "1", "5", "T", "1", "0", ":", "0", "0", ":", "0", "0", "Z">>)
    @@ ("data" :> <<"d", "a", "t", "a">>)
    @@ ("tmp/out" :> <<"t", "m", "p", "/", "o", "u", "t">>)
    @@ ("Oxford" :> <<"O", "x", "f", "o", "r", "d">>)
    @@ ("Cambridge" :> <<"C", "a", "m", "b", "r", "i", "d", "g", "e">>)
    @@ ("AC/DC" :> <<"A", "C", "/", "D", "C">>)
    @@ ("/dev/null" :> <<"/", "d", "e", "v", "/", "n", "u", "l", "l">>)
    @@ ("" :> <<>>)
    @@ ("//a/./b" :> <<"/", "/", "a", "/", ".", "/", "b">>)
    @@ ("101" :> <<"1", "0", "1">>)
    @@ ("102" :> <<"1", "0", "2">>)
    @@ ("103" :> <<"1", "0", "3">>)
    @@ ("104" :> <<"1", "0", "4">>)
    @@ ("105" :> <<"1", "0", "5">>)
    @@ ("106" :> <<"1", "0", "6">>)
    @@ ("107" :> <<"1", "0", "7">>)
    @@ ("108" :> <<"1", "0", "8">>)
    @@ ("109" :> <<"1", "0", "9">>)
    @@ ("110" :> <<"1", "1", "0">>)
    @@ ("111" :> <<"1", "1", "1">>)
    @@ ("112" :> <<"1", "1", "2">>)
    @@ ("113" :> <<"1", "1", "3">>)
    @@ ("114" :> <<"1", "1", "4">>)
    @@ ("115" :> <<"1", "1", "5">>)
    @@ ("116" :> <<"1", "1", "6">>)
    @@ ("117" :> <<"1", "1", "7">>)
    @@ ("118" :> <<"1", "1", "8">>)
    @@ ("119" :> <<"1", "1", "9">>)
    @@ ("1/2" :> <<"1", "/", "2">>)
    @@ ("1//2" :> <<"1", "/", "/", "2">>)
    @@ ("/1" :> <<"/", "1">>)
    @@ (".xml" :> <<".", "x", "m", "l">>)
    @@ ("2020" :> <<"2", "0", "2", "0">>)
    @@ ("2021" :> <<"2", "0", "2", "1">>)
    @@ ("5" :> <<"5">>)
    @@ ("01" :> <<"0", "1">>)
    @@ ("02" :> <<"0", "2">>)
    @@ ("03" :> <<"0", "3">>)
    @@ ("11" :> <<"1", "1">>)
    @@ ("it's 2020" :> <<"i", "t", "'", "s", " ", "2", "0", "2", "0">>)
    @@ ("2020\\01\\15" :> <<"2", "0", "2", "0", "\\", "0", "1", "\\", "1", "5">>)
    @@ ("'\"" :> <<"'", "\"">>)
    @@ ("2020-01-15\n" :> <<"2", "0", "2", "0", "-", "0", "1", "-", "1", "5", "\n">>)
    @@ ("2020-01-15T10:00:00Z\n" :> <<"2", "0", "2", "0", "-", "0", "1", "-", "1", "5", "T", "1", "0", ":", "0", "0", ":", "0", "0", "Z", "\n">>)
    @@ ("2020-01-15T10:00:00Z'" :> <<"2", "0", "2", "0", "-", "0", "1", "-", "1", "5", "T", "1", "0", ":", "0", "0", ":", "0", "0", "Z", "'">>)
    @@ ("2020\t01\r15" :> <<"2", "0", "2", "0", "\t", "0", "1", "\r", "1", "5">>)
    @@ ("/tmp/Oxford" :> <<"/", "t", "m", "p", "/", "O", "x", "f", "o", "r", "d">>)
    @@ ("1/2.xml/3" :> <<"1", "/", "2", ".", "x", "m", "l", "/", "3">>)
    @@ ("1/2.xml/3/4" :> <<"1", "/", "2", ".", "x", "m", "l", "/", "3", "/", "4">>)
    @@ ("121" :> <<"1", "2", "1">>)
    @@ ("122" :> <<"1", "2", "2">>)
    @@ ("123" :> <<"1", "2", "3">>)
    @@ ("124" :> <<"1", "2", "4">>)
    @@ ("125" :> <<"1", "2", "5">>)
    @@ ("126" :> <<"1", "2", "6">>)
    @@ ("127" :> <<"1", "2", "7">>)
    @@ ("first" :> <<"f", "i", "r", "s", "t">>)
    @@ ("edited" :> <<"e", "d", "i", "t", "e", "d">>)
    @@ ("caf{U+00E9}" :> <<"c", "a", "f", "{U+00E9}">>)
    @@ ("third" :> <<"t", "h", "i", "r", "d">>)
    @@ ("fifth" :> <<"f", "i", "f", "t", "h">>)
    @@ ("no id" :> <<"n", "o", " ", "i", "d">>)
    @@ ("no timestamp" :> <<"n", "o", " ", "t", "i", "m", "e", "s", "t", "a", "m", "p">>)
    @@ ("bad month" :> <<"b", "a", "d", " ", "m", "o", "n", "t", "h">>)
    @@ ("bad day" :> <<"b", "a", "d", " ", "d", "a", "y">>)
    @@ ("slashes" :> <<"s", "l", "a", "s", "h", "e", "s">>)
    @@ ("no zone" :> <<"n", "o", " ", "z", "o", "n", "e">>)
    @@ ("fullwidth year" :> <<"f", "u", "l", "l", "w", "i", "d", "t", "h", " ", "y", "e", "a", "r">>)
    @@ ("arabic-indic digits" :> <<"a", "r", "a", "b", "i", "c", "-", "i", "n", "d", "i", "c", " ", "d", "i", "g", "i", "t", "s">>)
    @@ ("arabic-indic month" :> <<"a", "r", "a", "b", "i", "c", "-", "i", "n", "d", "i", "c", " ", "m", "o", "n", "t", "h">>)
    @@ ("lower case" :> <<"l", "o", "w", "e", "r", " ", "c", "a", "s", "e">>)
    @@ ("blank-padded day" :> <<"b", "l", "a", "n", "k", "-", "p", "a", "d", "d", "e", "d", " ", "d", "a", "y">>)
    @@ ("trailing" :> <<"t", "r", "a", "i", "l", "i", "n", "g">>)
    @@ ("trailing blank" :> <<"t", "r", "a", "i", "l", "i", "n", "g", " ", "b", "l", "a", "n", "k">>)
    @@ ("second 60" :> <<"s", "e", "c", "o", "n", "d", " ", "6", "0">>)
    @@ ("year 0" :> <<"y", "e", "a", "r", " ", "0">>)
    @@ ("hour 24" :> <<"h", "o", "u", "r", " ", "2", "4">>)
    @@ ("year 5" :> <<"y", "e", "a", "r", " ", "5">>)
    @@ ("slash in id" :> <<"s", "l", "a", "s", "h", " ", "i", "n", " ", "i", "d">>)
    @@ ("slashes in id" :> <<"s", "l", "a", "s", "h", "e", "s", " ", "i", "n", " ", "i", "d">>)
    @@ ("id from the root" :> <<"i", "d", " ", "f", "r", "o", "m", " ", "t", "h", "e", " ", "r", "o", "o", "t">>)
    @@ ("nested id" :> <<"n", "e", "s", "t", "e", "d", " ", "i", "d">>)
    @@ ("deep id" :> <<"d", "e", "e", "p", " ", "i", "d">>)
    @@ ("apostrophe" :> <<"a", "p", "o", "s", "t", "r", "o", "p", "h", "e">>)
    @@ ("backslashes" :> <<"b", "a", "c", "k", "s", "l", "a", "s", "h", "e", "s">>)
    @@ ("both quotes" :> <<"b", "o", "t", "h", " ", "q", "u", "o", "t", "e", "s">>)
    @@ ("newline" :> <<"n", "e", "w", "l", "i", "n", "e">>)
    @@ ("trailing newline" :> <<"t", "r", "a", "i", "l", "i", "n", "g", " ", "n", "e", "w", "l", "i", "n", "e">>)
    @@ ("trailing apostrophe" :> <<"t", "r", "a", "i", "l", "i", "n", "g", " ", "a", "p", "o", "s", "t", "r", "o", "p", "h", "e">>)
    @@ ("tab and return" :> <<"t", "a", "b", " ", "a", "n", "d", " ", "r", "e", "t", "u", "r", "n">>)
    @@ ("2020-01-15\f" :> <<"2", "0", "2", "0", "-", "0", "1", "-", "1", "5", "\f">>)
    @@ ("128" :> <<"1", "2", "8">>)
    @@ ("form feed" :> <<"f", "o", "r", "m", " ", "f", "e", "e", "d">>)
    @@ ("{U+00A0}2020" :> <<"{U+00A0}", "2", "0", "2", "0">>)
    @@ ("129" :> <<"1", "2", "9">>)
    @@ ("no-break space" :> <<"n", "o", "-", "b", "r", "e", "a", "k", " ", "s", "p", "a", "c", "e">>)
    @@ ("2020-01-15{U+2028}" :> <<"2", "0", "2", "0", "-", "0", "1", "-", "1", "5", "{U+2028}">>)
    @@ ("130" :> <<"1", "3", "0">>)
    @@ ("line separator" :> <<"l", "i", "n", "e", " ", "s", "e", "p", "a", "r", "a", "t", "o", "r">>)
    @@ ("2020-01-15{U+E0001}" :> <<"2", "0", "2", "0", "-", "0", "1", "-", "1", "5", "{U+E0001}">>)
    @@ ("131" :> <<"1", "3", "1">>)
    @@ ("language tag" :> <<"l", "a", "n", "g", "u", "a", "g", "e", " ", "t", "a", "g">>)
    @@ ("2020-01-15{U+00E9}" :> <<"2", "0", "2", "0", "-", "0", "1", "-", "1", "5", "{U+00E9}">>)
    @@ ("132" :> <<"1", "3", "2">>)
    @@ ("accent" :> <<"a", "c", "c", "e", "n", "t">>)
    @@ ("20200115" :> <<"2", "0", "2", "0", "", "0", "1", "", "1", "5">>)
    @@ ("133" :> <<"1", "3", "3">>)
    @@ ("delete and escape" :> <<"d", "e", "l", "e", "t", "e", " ", "a", "n", "d", " ", "e", "s", "c", "a", "p", "e">>)
    @@ ("it's 2020{U+00AD}01" :> <<"i", "t", "'", "s", " ", "2", "0", "2", "0", "{U+00AD}", "0", "1">>)
    @@ ("134" :> <<"1", "3", "4">>)
    @@ ("soft hyphen" :> <<"s", "o", "f", "t", " ", "h", "y", "p", "h", "e", "n">>)

Chars(text) == Spelling[text]

\* ------------------------------------------------------------ parse_timestring

\* The regular expression _strptime compiles "%Y-%m-%dT%H:%M:%SZ" to, with
\* re.IGNORECASE: one entry per directive or literal, each entry the list of
\* its alternatives in the order of the pattern, each alternative the list of
\* the character classes it is made of.
\*   (?P<Y>\d\d\d\d)-(?P<m>1[0-2]|0[1-9]|[1-9])-
\*   (?P<d>3[0-1]|[1-2]\d|0[1-9]|[1-9]| [1-9])T(?P<H>2[0-3]|[0-1]\d|\d):
\*   (?P<M>[0-5]\d|\d):(?P<S>6[0-1]|[0-5]\d|\d)Z
Pattern ==
    << << <<AnyDigit, AnyDigit, AnyDigit, AnyDigit>> >>,
       << <<{"-"}>> >>,
       << <<{"1"}, AsciiDigits(0, 2)>>, <<{"0"}, AsciiDigits(1, 9)>>, <<AsciiDigits(1, 9)>> >>,
       << <<{"-"}>> >>,
       << <<{"3"}, AsciiDigits(0, 1)>>, <<AsciiDigits(1, 2), AnyDigit>>,
          <<{"0"}, AsciiDigits(1, 9)>>, <<AsciiDigits(1, 9)>>, <<{" "}, AsciiDigits(1, 9)>> >>,
       << <<{"T", "t"}>> >>,
       << <<{"2"}, AsciiDigits(0, 3)>>, <<AsciiDigits(0, 1), AnyDigit>>, <<AnyDigit>> >>,
       << <<{":"}>> >>,
       << <<AsciiDigits(0, 5), AnyDigit>>, <<AnyDigit>> >>,
       << <<{":"}>> >>,
       << <<{"6"}, AsciiDigits(0, 1)>>, <<AsciiDigits(0, 5), AnyDigit>>, <<AnyDigit>> >>,
       << <<{"Z", "z"}>> >> >>

\* The alternative alt matches s at position pos.
Fits(s, pos, alt) == \A i \in 1..Len(alt) : At(s, pos + i - 1) \in alt[i]

NoMatch == [ok |-> FALSE, lens |-> <<>>]

\* re.match from entry k of the pattern at position pos of s: the
\* alternatives are tried in order, and the next is tried when the rest of
\* the pattern does not match after one.  lens: the length of what each
\* entry matched.  (CHOOSE over a one-element set names a value that is
\* computed once.)
RECURSIVE MatchFrom(_, _, _, _)
MatchFrom(s, pos, k, a) ==
    IF k > Len(Pattern) THEN [ok |-> TRUE, lens |-> <<>>]
    ELSE IF a > Len(Pattern[k]) THEN NoMatch
    ELSE IF ~Fits(s, pos, Pattern[k][a]) THEN MatchFrom(s, pos, k, a + 1)
    ELSE CHOOSE found \in
             { IF rest.ok THEN [ok |-> TRUE, lens |-> <<Len(Pattern[k][a])>> \o rest.lens]
               ELSE MatchFrom(s, pos, k, a + 1) :
                   rest \in {MatchFrom(s, pos + Len(Pattern[k][a]), k + 1, 1)} } : TRUE

\* int() of a matched group: decimal digits of any script, blanks stripped.
RECURSIVE IntOf(_)
IntOf(s) ==
    IF s = <<>> THEN 0
    ELSE IF s[Len(s)] = " " THEN IntOf(SubSeq(s, 1, Len(s) - 1))
    ELSE 10 * IntOf(SubSeq(s, 1, Len(s) - 1)) + DigitVal(s[Len(s)])

RECURSIVE SumTo(_, _)
SumTo(lens, k) == IF k = 0 THEN 0 ELSE lens[k] + SumTo(lens, k - 1)

\* What entry k of the pattern matched.
Group(s, lens, k) == SubSeq(s, SumTo(lens, k - 1) + 1, SumTo(lens, k))

IsLeap(y) == (y % 4 = 0) /\ ((y % 100 # 0) \/ (y % 400 = 0))

DaysInMonth(y, m) ==
    IF m = 2 THEN (IF IsLeap(y) THEN 29 ELSE 28)
    ELSE IF m \in {4, 6, 9, 11} THEN 30 ELSE 31

\* The text a sequence of characters spells.
RECURSIVE Text(_)
Text(s) == IF s = <<>> THEN "" ELSE s[1] \o Text(Tail(s))

Format == "%Y-%m-%dT%H:%M:%SZ"

\* The ASCII characters in the order of their codes: the control characters
\* (1..31), the blank to the underscore (32..95), the small letters to the
\* tilde (97..126) and the delete character (127).
AsciiPrintable == " !\"#$%&'()*+,-./0123456789:;<=>?@ABCDEFGHIJKLMNOPQRSTUVWXYZ[\\]^_"
AsciiSmall == "abcdefghijklmnopqrstuvwxyz{|}~"
AsciiControls == <<"", "", "", "", "", "", "", "", "\t", "\n", "", "\f", "\r", "", "", "", "", "", "", "", "", "", "", "", "", "", "", "", "", "", "">>
Delete == ""

HexDigits == "0123456789abcdef"
HexUpper  == "0123456789ABCDEF"

\* The value of a hexadecimal numeral.
RECURSIVE HexVal(_)
HexVal(h) ==
    IF Len(h) = 0 THEN 0
    ELSE 16 * HexVal(SubSeq(h, 1, Len(h) - 1))
         + (CHOOSE d \in 1..16 : SubSeq(h, Len(h), Len(h))
                                   \in {SubSeq(HexDigits, d, d), SubSeq(HexUpper, d, d)}) - 1

\* n as a hexadecimal numeral of the given width, in lower case (%02x, %04x, %08x).
RECURSIVE Hex(_, _)
Hex(n, width) ==
    IF width = 0 THEN ""
    ELSE Hex(n \div 16, width - 1) \o SubSeq(HexDigits, (n % 16) + 1, (n % 16) + 1)

\* The code point of a character.
Ord(c) ==
    IF Len(c) > 1 THEN HexVal(SubSeq(c, 4, Len(c) - 1))
    ELSE IF \E i \in 1..64 : SubSeq(AsciiPrintable, i, i) = c
         THEN 31 + (CHOOSE i \in 1..64 : SubSeq(AsciiPrintable, i, i) = c)
    ELSE IF \E i \in 1..30 : SubSeq(AsciiSmall, i, i) = c
         THEN 96 + (CHOOSE i \in 1..30 : SubSeq(AsciiSmall, i, i) = c)
    ELSE IF c = Delete THEN 127
    ELSE CHOOSE i \in 1..31 : AsciiControls[i] = c

\* The characters the ascii codec encodes: the codes below 128.
IsAscii(c) == Len(c) = 1 \/ Ord(c) < 128

\* The code points str.isprintable rejects, as ranges <<first, last>>: the
\* categories Cc, Cf, Cs, Co, Cn, Zl, Zp and Zs (the blank excepted) of
\* Unicode 14.0 (Python 3.11).
NotPrintable == {
    <<0, 31>>, <<127, 160>>, <<173, 173>>, <<888, 889>>, <<896, 899>>, <<907, 907>>,
    <<909, 909>>, <<930, 930>>, <<1328, 1328>>, <<1367, 1368>>, <<1419, 1420>>, <<1424, 1424>>,
    <<1480, 1487>>, <<1515, 1518>>, <<1525, 1541>>, <<1564, 1564>>, <<1757, 1757>>, <<1806, 1807>>,
    <<1867, 1868>>, <<1970, 1983>>, <<2043, 2044>>, <<2094, 2095>>, <<2111, 2111>>, <<2140, 2141>>,
    <<2143, 2143>>, <<2155, 2159>>, <<2191, 2199>>, <<2274, 2274>>, <<2436, 2436>>, <<2445, 2446>>,
    <<2449, 2450>>, <<2473, 2473>>, <<2481, 2481>>, <<2483, 2485>>, <<2490, 2491>>, <<2501, 2502>>,
    <<2505, 2506>>, <<2511, 2518>>, <<2520, 2523>>, <<2526, 2526>>, <<2532, 2533>>, <<2559, 2560>>,
    <<2564, 2564>>, <<2571, 2574>>, <<2577, 2578>>, <<2601, 2601>>, <<2609, 2609>>, <<2612, 2612>>,
    <<2615, 2615>>, <<2618, 2619>>, <<2621, 2621>>, <<2627, 2630>>, <<2633, 2634>>, <<2638, 2640>>,
    <<2642, 2648>>, <<2653, 2653>>, <<2655, 2661>>, <<2679, 2688>>, <<2692, 2692>>, <<2702, 2702>>,
    <<2706, 2706>>, <<2729, 2729>>, <<2737, 2737>>, <<2740, 2740>>, <<2746, 2747>>, <<2758, 2758>>,
    <<2762, 2762>>, <<2766, 2767>>, <<2769, 2783>>, <<2788, 2789>>, <<2802, 2808>>, <<2816, 2816>>,
    <<2820, 2820>>, <<2829, 2830>>, <<2833, 2834>>, <<2857, 2857>>, <<2865, 2865>>, <<2868, 2868>>,
    <<2874, 2875>>, <<2885, 2886>>, <<2889, 2890>>, <<2894, 2900>>, <<2904, 2907>>, <<2910, 2910>>,
    <<2916, 2917>>, <<2936, 2945>>, <<2948, 2948>>, <<2955, 2957>>, <<2961, 2961>>, <<2966, 2968>>,
    <<2971, 2971>>, <<2973, 2973>>, <<2976, 2978>>, <<2981, 2983>>, <<2987, 2989>>, <<3002, 3005>>,
    <<3011, 3013>>, <<3017, 3017>>, <<3022, 3023>>, <<3025, 3030>>, <<3032, 3045>>, <<3067, 3071>>,
    <<3085, 3085>>, <<3089, 3089>>, <<3113, 3113>>, <<3130, 3131>>, <<3141, 3141>>, <<3145, 3145>>,
    <<3150, 3156>>, <<3159, 3159>>, <<3163, 3164>>, <<3166, 3167>>, <<3172, 3173>>, <<3184, 3190>>,
    <<3213, 3213>>, <<3217, 3217>>, <<3241, 3241>>, <<3252, 3252>>, <<3258, 3259>>, <<3269, 3269>>,
    <<3273, 3273>>, <<3278, 3284>>, <<3287, 3292>>, <<3295, 3295>>, <<3300, 3301>>, <<3312, 3312>>,
    <<3315, 3327>>, <<3341, 3341>>, <<3345, 3345>>, <<3397, 3397>>, <<3401, 3401>>, <<3408, 3411>>,
    <<3428, 3429>>, <<3456, 3456>>, <<3460, 3460>>, <<3479, 3481>>, <<3506, 3506>>, <<3516, 3516>>,
    <<3518, 3519>>, <<3527, 3529>>, <<3531, 3534>>, <<3541, 3541>>, <<3543, 3543>>, <<3552, 3557>>,
    <<3568, 3569>>, <<3573, 3584>>, <<3643, 3646>>, <<3676, 3712>>, <<3715, 3715>>, <<3717, 3717>>,
    <<3723, 3723>>, <<3748, 3748>>, <<3750, 3750>>, <<3774, 3775>>, <<3781, 3781>>, <<3783, 3783>>,
    <<3790, 3791>>, <<3802, 3803>>, <<3808, 3839>>, <<3912, 3912>>, <<3949, 3952>>, <<3992, 3992>>,
    <<4029, 4029>>, <<4045, 4045>>, <<4059, 4095>>, <<4294, 4294>>, <<4296, 4300>>, <<4302, 4303>>,
    <<4681, 4681>>, <<4686, 4687>>, <<4695, 4695>>, <<4697, 4697>>, <<4702, 4703>>, <<4745, 4745>>,
    <<4750, 4751>>, <<4785, 4785>>, <<4790, 4791>>, <<4799, 4799>>, <<4801, 4801>>, <<4806, 4807>>,
    <<4823, 4823>>, <<4881, 4881>>, <<4886, 4887>>, <<4955, 4956>>, <<4989, 4991>>, <<5018, 5023>>,
    <<5110, 5111>>, <<5118, 5119>>, <<5760, 5760>>, <<5789, 5791>>, <<5881, 5887>>, <<5910, 5918>>,
    <<5943, 5951>>, <<5972, 5983>>, <<5997, 5997>>, <<6001, 6001>>, <<6004, 6015>>, <<6110, 6111>>,
    <<6122, 6127>>, <<6138, 6143>>, <<6158, 6158>>, <<6170, 6175>>, <<6265, 6271>>, <<6315, 6319>>,
    <<6390, 6399>>, <<6431, 6431>>, <<6444, 6447>>, <<6460, 6463>>, <<6465, 6467>>, <<6510, 6511>>,
    <<6517, 6527>>, <<6572, 6575>>, <<6602, 6607>>, <<6619, 6621>>, <<6684, 6685>>, <<6751, 6751>>,
    <<6781, 6782>>, <<6794, 6799>>, <<6810, 6815>>, <<6830, 6831>>, <<6863, 6911>>, <<6989, 6991>>,
    <<7039, 7039>>, <<7156, 7163>>, <<7224, 7226>>, <<7242, 7244>>, <<7305, 7311>>, <<7355, 7356>>,
    <<7368, 7375>>, <<7419, 7423>>, <<7958, 7959>>, <<7966, 7967>>, <<8006, 8007>>, <<8014, 8015>>,
    <<8024, 8024>>, <<8026, 8026>>, <<8028, 8028>>, <<8030, 8030>>, <<8062, 8063>>, <<8117, 8117>>,
    <<8133, 8133>>, <<8148, 8149>>, <<8156, 8156>>, <<8176, 8177>>, <<8181, 8181>>, <<8191, 8207>>,
    <<8232, 8239>>, <<8287, 8303>>, <<8306, 8307>>, <<8335, 8335>>, <<8349, 8351>>, <<8385, 8399>>,
    <<8433, 8447>>, <<8588, 8591>>, <<9255, 9279>>, <<9291, 9311>>, <<11124, 11125>>, <<11158, 11158>>,
    <<11508, 11512>>, <<11558, 11558>>, <<11560, 11564>>, <<11566, 11567>>, <<11624, 11630>>, <<11633, 11646>>,
    <<11671, 11679>>, <<11687, 11687>>, <<11695, 11695>>, <<11703, 11703>>, <<11711, 11711>>, <<11719, 11719>>,
    <<11727, 11727>>, <<11735, 11735>>, <<11743, 11743>>, <<11870, 11903>>, <<11930, 11930>>, <<12020, 12031>>,
    <<12246, 12271>>, <<12284, 12288>>, <<12352, 12352>>, <<12439, 12440>>, <<12544, 12548>>, <<12592, 12592>>,
    <<12687, 12687>>, <<12772, 12783>>, <<12831, 12831>>, <<42125, 42127>>, <<42183, 42191>>, <<42540, 42559>>,
    <<42744, 42751>>, <<42955, 42959>>, <<42962, 42962>>, <<42964, 42964>>, <<42970, 42993>>, <<43053, 43055>>,
    <<43066, 43071>>, <<43128, 43135>>, <<43206, 43213>>, <<43226, 43231>>, <<43348, 43358>>, <<43389, 43391>>,
    <<43470, 43470>>, <<43482, 43485>>, <<43519, 43519>>, <<43575, 43583>>, <<43598, 43599>>, <<43610, 43611>>,
    <<43715, 43738>>, <<43767, 43776>>, <<43783, 43784>>, <<43791, 43792>>, <<43799, 43807>>, <<43815, 43815>>,
    <<43823, 43823>>, <<43884, 43887>>, <<44014, 44015>>, <<44026, 44031>>, <<55204, 55215>>, <<55239, 55242>>,
    <<55292, 63743>>, <<64110, 64111>>, <<64218, 64255>>, <<64263, 64274>>, <<64280, 64284>>, <<64311, 64311>>,
    <<64317, 64317>>, <<64319, 64319>>, <<64322, 64322>>, <<64325, 64325>>, <<64451, 64466>>, <<64912, 64913>>,
    <<64968, 64974>>, <<64976, 65007>>, <<65050, 65055>>, <<65107, 65107>>, <<65127, 65127>>, <<65132, 65135>>,
    <<65141, 65141>>, <<65277, 65280>>, <<65471, 65473>>, <<65480, 65481>>, <<65488, 65489>>, <<65496, 65497>>,
    <<65501, 65503>>, <<65511, 65511>>, <<65519, 65531>>, <<65534, 65535>>, <<65548, 65548>>, <<65575, 65575>>,
    <<65595, 65595>>, <<65598, 65598>>, <<65614, 65615>>, <<65630, 65663>>, <<65787, 65791>>, <<65795, 65798>>,
    <<65844, 65846>>, <<65935, 65935>>, <<65949, 65951>>, <<65953, 65999>>, <<66046, 66175>>, <<66205, 66207>>,
    <<66257, 66271>>, <<66300, 66303>>, <<66340, 66348>>, <<66379, 66383>>, <<66427, 66431>>, <<66462, 66462>>,
    <<66500, 66503>>, <<66518, 66559>>, <<66718, 66719>>, <<66730, 66735>>, <<66772, 66775>>, <<66812, 66815>>,
    <<66856, 66863>>, <<66916, 66926>>, <<66939, 66939>>, <<66955, 66955>>, <<66963, 66963>>, <<66966, 66966>>,
    <<66978, 66978>>, <<66994, 66994>>, <<67002, 67002>>, <<67005, 67071>>, <<67383, 67391>>, <<67414, 67423>>,
    <<67432, 67455>>, <<67462, 67462>>, <<67505, 67505>>, <<67515, 67583>>, <<67590, 67591>>, <<67593, 67593>>,
    <<67638, 67638>>, <<67641, 67643>>, <<67645, 67646>>, <<67670, 67670>>, <<67743, 67750>>, <<67760, 67807>>,
    <<67827, 67827>>, <<67830, 67834>>, <<67868, 67870>>, <<67898, 67902>>, <<67904, 67967>>, <<68024, 68027>>,
    <<68048, 68049>>, <<68100, 68100>>, <<68103, 68107>>, <<68116, 68116>>, <<68120, 68120>>, <<68150, 68151>>,
    <<68155, 68158>>, <<68169, 68175>>, <<68185, 68191>>, <<68256, 68287>>, <<68327, 68330>>, <<68343, 68351>>,
    <<68406, 68408>>, <<68438, 68439>>, <<68467, 68471>>, <<68498, 68504>>, <<68509, 68520>>, <<68528, 68607>>,
    <<68681, 68735>>, <<68787, 68799>>, <<68851, 68857>>, <<68904, 68911>>, <<68922, 69215>>, <<69247, 69247>>,
    <<69290, 69290>>, <<69294, 69295>>, <<69298, 69375>>, <<69416, 69423>>, <<69466, 69487>>, <<69514, 69551>>,
    <<69580, 69599>>, <<69623, 69631>>, <<69710, 69713>>, <<69750, 69758>>, <<69821, 69821>>, <<69827, 69839>>,
    <<69865, 69871>>, <<69882, 69887>>, <<69941, 69941>>, <<69960, 69967>>, <<70007, 70015>>, <<70112, 70112>>,
    <<70133, 70143>>, <<70162, 70162>>, <<70207, 70271>>, <<70279, 70279>>, <<70281, 70281>>, <<70286, 70286>>,
    <<70302, 70302>>, <<70314, 70319>>, <<70379, 70383>>, <<70394, 70399>>, <<70404, 70404>>, <<70413, 70414>>,
    <<70417, 70418>>, <<70441, 70441>>, <<70449, 70449>>, <<70452, 70452>>, <<70458, 70458>>, <<70469, 70470>>,
    <<70473, 70474>>, <<70478, 70479>>, <<70481, 70486>>, <<70488, 70492>>, <<70500, 70501>>, <<70509, 70511>>,
    <<70517, 70655>>, <<70748, 70748>>, <<70754, 70783>>, <<70856, 70863>>, <<70874, 71039>>, <<71094, 71095>>,
    <<71134, 71167>>, <<71237, 71247>>, <<71258, 71263>>, <<71277, 71295>>, <<71354, 71359>>, <<71370, 71423>>,
    <<71451, 71452>>, <<71468, 71471>>, <<71495, 71679>>, <<71740, 71839>>, <<71923, 71934>>, <<71943, 71944>>,
    <<71946, 71947>>, <<71956, 71956>>, <<71959, 71959>>, <<71990, 71990>>, <<71993, 71994>>, <<72007, 72015>>,
    <<72026, 72095>>, <<72104, 72105>>, <<72152, 72153>>, <<72165, 72191>>, <<72264, 72271>>, <<72355, 72367>>,
    <<72441, 72703>>, <<72713, 72713>>, <<72759, 72759>>, <<72774, 72783>>, <<72813, 72815>>, <<72848, 72849>>,
    <<72872, 72872>>, <<72887, 72959>>, <<72967, 72967>>, <<72970, 72970>>, <<73015, 73017>>, <<73019, 73019>>,
    <<73022, 73022>>, <<73032, 73039>>, <<73050, 73055>>, <<73062, 73062>>, <<73065, 73065>>, <<73103, 73103>>,
    <<73106, 73106>>, <<73113, 73119>>, <<73130, 73439>>, <<73465, 73647>>, <<73649, 73663>>, <<73714, 73726>>,
    <<74650, 74751>>, <<74863, 74863>>, <<74869, 74879>>, <<75076, 77711>>, <<77811, 77823>>, <<78895, 82943>>,
    <<83527, 92159>>, <<92729, 92735>>, <<92767, 92767>>, <<92778, 92781>>, <<92863, 92863>>, <<92874, 92879>>,
    <<92910, 92911>>, <<92918, 92927>>, <<92998, 93007>>, <<93018, 93018>>, <<93026, 93026>>, <<93048, 93052>>,
    <<93072, 93759>>, <<93851, 93951>>, <<94027, 94030>>, <<94088, 94094>>, <<94112, 94175>>, <<94181, 94191>>,
    <<94194, 94207>>, <<100344, 100351>>, <<101590, 101631>>, <<101641, 110575>>, <<110580, 110580>>, <<110588, 110588>>,
    <<110591, 110591>>, <<110883, 110927>>, <<110931, 110947>>, <<110952, 110959>>, <<111356, 113663>>, <<113771, 113775>>,
    <<113789, 113791>>, <<113801, 113807>>, <<113818, 113819>>, <<113824, 118527>>, <<118574, 118575>>, <<118599, 118607>>,
    <<118724, 118783>>, <<119030, 119039>>, <<119079, 119080>>, <<119155, 119162>>, <<119275, 119295>>, <<119366, 119519>>,
    <<119540, 119551>>, <<119639, 119647>>, <<119673, 119807>>, <<119893, 119893>>, <<119965, 119965>>, <<119968, 119969>>,
    <<119971, 119972>>, <<119975, 119976>>, <<119981, 119981>>, <<119994, 119994>>, <<119996, 119996>>, <<120004, 120004>>,
    <<120070, 120070>>, <<120075, 120076>>, <<120085, 120085>>, <<120093, 120093>>, <<120122, 120122>>, <<120127, 120127>>,
    <<120133, 120133>>, <<120135, 120137>>, <<120145, 120145>>, <<120486, 120487>>, <<120780, 120781>>, <<121484, 121498>>,
    <<121504, 121504>>, <<121520, 122623>>, <<122655, 122879>>, <<122887, 122887>>, <<122905, 122906>>, <<122914, 122914>>,
    <<122917, 122917>>, <<122923, 123135>>, <<123181, 123183>>, <<123198, 123199>>, <<123210, 123213>>, <<123216, 123535>>,
    <<123567, 123583>>, <<123642, 123646>>, <<123648, 124895>>, <<124903, 124903>>, <<124908, 124908>>, <<124911, 124911>>,
    <<124927, 124927>>, <<125125, 125126>>, <<125143, 125183>>, <<125260, 125263>>, <<125274, 125277>>, <<125280, 126064>>,
    <<126133, 126208>>, <<126270, 126463>>, <<126468, 126468>>, <<126496, 126496>>, <<126499, 126499>>, <<126501, 126502>>,
    <<126504, 126504>>, <<126515, 126515>>, <<126520, 126520>>, <<126522, 126522>>, <<126524, 126529>>, <<126531, 126534>>,
    <<126536, 126536>>, <<126538, 126538>>, <<126540, 126540>>, <<126544, 126544>>, <<126547, 126547>>, <<126549, 126550>>,
    <<126552, 126552>>, <<126554, 126554>>, <<126556, 126556>>, <<126558, 126558>>, <<126560, 126560>>, <<126563, 126563>>,
    <<126565, 126566>>, <<126571, 126571>>, <<126579, 126579>>, <<126584, 126584>>, <<126589, 126589>>, <<126591, 126591>>,
    <<126602, 126602>>, <<126620, 126624>>, <<126628, 126628>>, <<126634, 126634>>, <<126652, 126703>>, <<126706, 126975>>,
    <<127020, 127023>>, <<127124, 127135>>, <<127151, 127152>>, <<127168, 127168>>, <<127184, 127184>>, <<127222, 127231>>,
    <<127406, 127461>>, <<127491, 127503>>, <<127548, 127551>>, <<127561, 127567>>, <<127570, 127583>>, <<127590, 127743>>,
    <<128728, 128732>>, <<128749, 128751>>, <<128765, 128767>>, <<128884, 128895>>, <<128985, 128991>>, <<129004, 129007>>,
    <<129009, 129023>>, <<129036, 129039>>, <<129096, 129103>>, <<129114, 129119>>, <<129160, 129167>>, <<129198, 129199>>,
    <<129202, 129279>>, <<129620, 129631>>, <<129646, 129647>>, <<129653, 129655>>, <<129661, 129663>>, <<129671, 129679>>,
    <<129709, 129711>>, <<129723, 129727>>, <<129734, 129743>>, <<129754, 129759>>, <<129768, 129775>>, <<129783, 129791>>,
    <<129939, 129939>>, <<129995, 130031>>, <<130042, 131071>>, <<173792, 173823>>, <<177977, 177983>>, <<178206, 178207>>,
    <<183970, 183983>>, <<191457, 194559>>, <<195102, 196607>>, <<201547, 917759>>, <<918000, 1114111>> }

isprintable(ch) == ~\E range \in NotPrintable : range[1] <= ch /\ ch <= range[2]

\* One character of a text inside repr's quotes: backslash and the quote
\* behind a backslash, tab, newline and carriage return by their letters,
\* every other character that is not printable by its code (\xhh, \uhhhh,
\* \Uhhhhhhhh), the rest as it is.
Escaped(c, quote) ==
    IF c = "\\" THEN "\\\\"
    ELSE IF c = quote THEN "\\" \o c
    ELSE IF c = "\n" THEN "\\n"
    ELSE IF c = "\r" THEN "\\r"
    ELSE IF c = "\t" THEN "\\t"
    ELSE CHOOSE escaped \in
             { IF ch < 32 \/ ch = 127 THEN "\\x" \o Hex(ch, 2)
               ELSE IF ch < 127 THEN c
               ELSE IF isprintable(ch) THEN c
               ELSE IF ch <= 255 THEN "\\x" \o Hex(ch, 2)
               ELSE IF ch <= 65535 THEN "\\u" \o Hex(ch, 4)
               ELSE "\\U" \o Hex(ch, 8) : ch \in {Ord(c)} } : TRUE

RECURSIVE EscapedText(_, _)
EscapedText(s, quote) ==
    IF s = <<>> THEN "" ELSE Escaped(s[1], quote) \o EscapedText(Tail(s), quote)

\* Python's repr of a text (%r): in single quotes, in double quotes when the
\* text holds a single quote and no double quote; each character escaped as
\* that quote requires.
Repr(s) ==
    LET quote == IF (\E i \in DOMAIN s : s[i] = "'") /\ (\A i \in DOMAIN s : s[i] # "\"")
                 THEN "\"" ELSE "'"
    IN  quote \o EscapedText(s, quote) \o quote

\* The ValueErrors of strptime: the first two name the text (%r), or what is
\* left of it after the match (%s).
TimeDataNoMatch(data_string) ==
    "ValueError: time data " \o Repr(data_string)
        \o " does not match format '" \o Format \o "'"
UnconvertedData(rest) == "ValueError: unconverted data remains: " \o rest
YearOutOfRange   == "ValueError: year 0 is out of range"
DayOutOfRange    == "ValueError: day is out of range for month"
SecondOutOfRange == "ValueError: second must be in 0..59"

BadTime(e) == [ok |-> FALSE, err |-> e]

\* datetime.strptime(timestring, "%Y-%m-%dT%H:%M:%SZ"): the match of the
\* pattern at the start of the text, nothing left over after it, then the
\* range checks of date (year, day of the month) and of datetime (second).
strptime(s) ==
    CHOOSE parsed \in
        { IF ~found.ok THEN BadTime(TimeDataNoMatch(s))
          ELSE IF Len(s) # SumTo(found.lens, Len(found.lens))
          THEN BadTime(UnconvertedData(
                   Text(SubSeq(s, SumTo(found.lens, Len(found.lens)) + 1, Len(s)))))
          ELSE CHOOSE checked \in
                   { IF year < 1 THEN BadTime(YearOutOfRange)
                     ELSE IF day > DaysInMonth(year, month) THEN BadTime(DayOutOfRange)
                     ELSE IF second > 59 THEN BadTime(SecondOutOfRange)
                     ELSE [ok |-> TRUE, year |-> year, month |-> month] :
                         year   \in {IntOf(Group(s, found.lens, 1))},
                         month  \in {IntOf(Group(s, found.lens, 3))},
                         day    \in {IntOf(Group(s, found.lens, 5))},
                         second \in {IntOf(Group(s, found.lens, 11))} } : TRUE :
              found \in {MatchFrom(s, 1, 1, 1)} } : TRUE

\* ------------------------------------------------------------------- texts

\* The exceptions a run can end with.
AttributeNotFound(attribute) ==
    "ValueError: Could not find attribute " \o attribute \o " in text"
PageNotFound(page_name) == "ValueError: Page " \o page_name \o " does not exist"
HTTPError         == "HTTPError"
FileNotFound      == "FileNotFoundError"
NotADirectory     == "NotADirectoryError"
FileExists        == "FileExistsError"
IsADirectory      == "IsADirectoryError"
UnicodeEncodeError == "UnicodeEncodeError"

Return(v) == [ok |-> TRUE, val |-> v]
Raise(e)  == [ok |-> FALSE, err |-> e]

\* Sample revision fragments: the elements soup.find can find in each, and
\* the rest of the fragment's text.
RevA1    == [id |-> "101", timestamp |-> "2020-01-15T10:00:00Z", text |-> "first"]
RevA2    == [id |-> "101", timestamp |-> "2020-01-15T10:00:00Z", text |-> "edited"]
RevB     == [id |-> "102", timestamp |-> "2020-02-03T08:15:30Z", text |-> "caf{U+00E9}"]
RevC     == [id |-> "103", timestamp |-> "2020-2-29T23:59:5{U+0669}Z", text |-> "third"]
RevD     == [id |-> "101", timestamp |-> "2021-11-30T00:00:00Z", text |-> "first"]
RevE     == [id |-> "109", timestamp |-> "2020-1-05T09:30:00Z", text |-> "fifth"]
RevNoId  == [timestamp |-> "2020-02-03T08:15:30Z", text |-> "no id"]
RevNoTs  == [id |-> "104", text |-> "no timestamp"]
RevBadTs == [id |-> "105", timestamp |-> "2020-13-01T00:00:00Z", text |-> "bad month"]
RevBadDay == [id |-> "106", timestamp |-> "2021-02-30T00:00:00Z", text |-> "bad day"]
RevSlashes == [id |-> "107", timestamp |-> "15/01/2020", text |-> "slashes"]
RevNoZone == [id |-> "108", timestamp |-> "2020-01-15T10:00:00", text |-> "no zone"]
RevWide  == [id |-> "110", timestamp |-> "{U+FF12}{U+FF10}{U+FF12}{U+FF10}-01-15T10:00:00Z",
             text |-> "fullwidth year"]
RevArabic == [id |-> "111", timestamp |-> "2020-03-1{U+0663}T0{U+0663}:{U+0663}:0{U+0663}Z",
              text |-> "arabic-indic digits"]
RevArabicMonth == [id |-> "112", timestamp |-> "2020-{U+0660}1-15T10:00:00Z",
                   text |-> "arabic-indic month"]
RevLower == [id |-> "113", timestamp |-> "2020-01-15t10:00:00z", text |-> "lower case"]
RevSpaceDay == [id |-> "114", timestamp |-> "2020-01- 5T10:00:00Z", text |-> "blank-padded day"]
RevTrailing == [id |-> "115", timestamp |-> "2020-01-15T10:00:00ZZ", text |-> "trailing"]
RevTrailingBlank == [id |-> "120", timestamp |-> "2020-01-15T10:00:00Z ", text |-> "trailing blank"]
RevSecond60 == [id |-> "116", timestamp |-> "2020-01-15T10:00:60Z", text |-> "second 60"]
RevYear0 == [id |-> "117", timestamp |-> "0000-01-15T10:00:00Z", text |-> "year 0"]
RevHour24 == [id |-> "118", timestamp |-> "2020-01-15T24:00:00Z", text |-> "hour 24"]
RevYear5 == [id |-> "119", timestamp |-> "0005-01-15T10:00:00Z", text |-> "year 5"]
RevSlashId == [id |-> "1/2", timestamp |-> "2020-01-15T10:00:00Z", text |-> "slash in id"]
RevSlashesId == [id |-> "1//2", timestamp |-> "2020-01-15T10:00:00Z", text |-> "slashes in id"]
RevRootId == [id |-> "/1", timestamp |-> "2020-01-15T10:00:00Z", text |-> "id from the root"]
RevNestedId == [id |-> "1/2.xml/3", timestamp |-> "2020-01-15T10:00:00Z", text |-> "nested id"]
RevDeepId == [id |-> "1/2.xml/3/4", timestamp |-> "2020-01-15T10:00:00Z", text |-> "deep id"]
RevApostrophe == [id |-> "121", timestamp |-> "it's 2020", text |-> "apostrophe"]
RevBackslashes == [id |-> "122", timestamp |-> "2020\\01\\15", text |-> "backslashes"]
RevBothQuotes == [id |-> "123", timestamp |-> "'\"", text |-> "both quotes"]
RevNewline == [id |-> "124", timestamp |-> "2020-01-15\n", text |-> "newline"]
RevTrailingNewline == [id |-> "125", timestamp |-> "2020-01-15T10:00:00Z\n",
                       text |-> "trailing newline"]
RevTrailingApostrophe == [id |-> "126", timestamp |-> "2020-01-15T10:00:00Z'",
                          text |-> "trailing apostrophe"]
RevTabReturn == [id |-> "127", timestamp |-> "2020\t01\r15", text |-> "tab and return"]

\* Timestamps whose %r holds a character by its code, or a character
\* outside ASCII as it is.
RevFormFeed == [id |-> "128", timestamp |-> "2020-01-15\f", text |-> "form feed"]
RevNoBreakSpace == [id |-> "129", timestamp |-> "{U+00A0}2020", text |-> "no-break space"]
RevLineSeparator == [id |-> "130", timestamp |-> "2020-01-15{U+2028}", text |-> "line separator"]
RevLanguageTag == [id |-> "131", timestamp |-> "2020-01-15{U+E0001}", text |-> "language tag"]
RevAccent == [id |-> "132", timestamp |-> "2020-01-15{U+00E9}", text |-> "accent"]
RevDelete == [id |-> "133", timestamp |-> "20200115", text |-> "delete and escape"]
RevSoftHyphen == [id |-> "134", timestamp |-> "it's 2020{U+00AD}01", text |-> "soft hyphen"]

\* The fragments the documents of a run are made of.
Fragments ==
    {RevA1, RevA2, RevB, RevC, RevNoId, RevNoTs, RevBadTs, RevSlashId, RevSlashesId,
     RevNestedId, RevDeepId}

\* The fragments of the documents with more than two revisions.
LongFragments == {RevA1, RevB, RevBadTs}

\* Fragments whose timestamp strptime names in its error, each kind of
\* escape of %r among them.
NamedFragments ==
    {RevApostrophe, RevBackslashes, RevBothQuotes, RevTabReturn, RevFormFeed,
     RevNoBreakSpace, RevLineSeparator, RevLanguageTag, RevAccent, RevDelete,
     RevSoftHyphen}

\* The fragments construct_path is tried on by itself.
PathFragments ==
    Fragments \cup {RevD, RevE, RevBadDay, RevSlashes, RevNoZone, RevWide, RevArabic,
                    RevArabicMonth, RevLower, RevSpaceDay, RevTrailing, RevTrailingBlank,
                    RevSecond60, RevYear0, RevHour24, RevYear5, RevRootId,
                    RevApostrophe, RevBackslashes, RevBothQuotes, RevNewline,
                    RevTrailingNewline, RevTrailingApostrophe, RevTabReturn,
                    RevFormFeed, RevNoBreakSpace, RevLineSeparator, RevLanguageTag,
                    RevAccent, RevDelete, RevSoftHyphen}

\* The timestamp texts of the sample fragments.
Timestrings == {f.timestamp : f \in {g \in PathFragments : "timestamp" \in DOMAIN g}}

\* strptime on each of the sample timestamp texts, computed once.
Parsed == [timestring \in Timestrings |-> strptime(Chars(timestring))]

\* datetime.strptime(timestring, "%Y-%m-%dT%H:%M:%SZ")
parse_timestring(timestring) == Parsed[timestring]

\* ------------------------------------------------------------------- paths

\* The pieces of a text between its "/" characters, empty pieces included.
RECURSIVE Split(_)
Split(s) ==
    IF \A i \in DOMAIN s : s[i] # "/" THEN <<s>>
    ELSE LET k == CHOOSE i \in DOMAIN s : s[i] = "/" /\ \A j \in 1..(i - 1) : s[j] # "/"
         IN  <<SubSeq(s, 1, k - 1)>> \o Split(SubSeq(s, k + 1, Len(s)))

\* pathlib's parts of a text without its root: empty and "." pieces dropped.
Segments(s) == SelectSeq(Split(s), LAMBDA piece : piece # <<>> /\ piece # <<".">>)

\* pathlib's root of a text that starts with "/": "//" for exactly two
\* leading slashes, "/" otherwise.
Root(s) ==
    IF At(s, 2) = "/" /\ At(s, 3) # "/" THEN <<"/", "/">> ELSE <<"/">>

\* pathlib's `path / text`: the parts of the text below the path, or, when
\* the text starts with "/", in place of the path.
Join(path, s) ==
    IF At(s, 1) = "/" THEN <<Root(s)>> \o Segments(s)
    ELSE path \o Segments(s)

\* Path(text)
Path(text) == Join(<<>>, Chars(text))

\* DATA_DIR = Path("data")
DATA_DIR == Path("data")

\* The page titles of the runs: a plain one, one with a "/" and one that
\* starts with "/".
Pages == {"Oxford", "AC/DC", "/tmp/Oxford"}
PathPages == {"Oxford", "Cambridge", "AC/DC", "/dev/null", "", "//a/./b"}
PathDirs == {DATA_DIR, Path("tmp/out")}

\* The values main's `folders` can hold: a string of the command line, no
\* value at all (the option was not given), or a boolean of another caller.
StrFlag(s) == [type |-> "str", val |-> s]
BoolFlag   == [type |-> "bool", val |-> "True"]
NoneFlag   == [type |-> "NoneType", val |-> "None"]
FlagValues == {StrFlag("True"), StrFlag("true"), StrFlag("False"), BoolFlag, NoneFlag}

\* The encodings a locale can give open(): one that encodes every text, one
\* that encodes ASCII only.
Encodings == {"utf-8", "ascii"}

SeqsUpTo(S, n) == UNION {[1..k -> S] : k \in 0..n}

\* A downloaded document: its page element (if any) and its revision
\* elements in document order.
WithPage(revs) == [page |-> "page", revision |-> revs]
NoPage(revs)   == [revision |-> revs]
\* Every list of up to two fragments, the longer lists over three of the
\* fragments, the three revisions of two months, and a revision followed by
\* one whose timestamp the error names.
Documents == {WithPage(r) : r \in SeqsUpTo(Fragments, 2)}
                 \cup {WithPage(r) : r \in SeqsUpTo(LongFragments, MaxRevs)}
                 \cup {WithPage(<<RevC, RevB, RevA1>>)}
                 \cup {WithPage(<<RevA1, f>>) : f \in NamedFragments}
                 \cup {NoPage(<<>>)} \cup {NoPage(<<f>>) : f \in Fragments}

\* main's locals before the download has returned
NoText == [unset |-> "unset"]

\* ------------------------------------------------------------------ parsing

\* for revision in soup.find_all("revision"): yield str(revision)
parse_mediawiki_revisions(xml_content) == xml_content.revision

\* soup.find(attribute); None raises ValueError, else the element's text
extract_attribute(text, attribute) ==
    IF attribute \in DOMAIN text THEN Return(text[attribute])
    ELSE Raise(AttributeNotFound(attribute))

extract_id(revision) == extract_attribute(revision, "id")

find_timestamp(revision) ==
    LET a == extract_attribute(revision, "timestamp")
    IN  IF ~a.ok THEN a
        ELSE LET t == parse_timestring(a.val)
             IN  IF t.ok THEN Return(t) ELSE Raise(t.err)

\* Mutant of construct_path: every revision of a page in one directory.
construct_path_flat(page_name, save_dir, wiki_revision) ==
    IF ~extract_id(wiki_revision).ok THEN extract_id(wiki_revision)
    ELSE IF ~find_timestamp(wiki_revision).ok THEN find_timestamp(wiki_revision)
    ELSE Return(Join(Join(save_dir, Chars(page_name)),
                     Chars(extract_id(wiki_revision).val) \o Chars(".xml")))

\* The width of the month segment: str(timestamp.month).zfill(2)
MonthWidth == 2

construct_path(page_name, save_dir, wiki_revision) ==
    LET revision_id == extract_id(wiki_revision)
        timestamp   == find_timestamp(wiki_revision)
        year        == str(timestamp.val.year)
        month       == zfill(str(timestamp.val.month), MonthWidth)
    IN  IF ~revision_id.ok THEN revision_id
        ELSE IF ~timestamp.ok THEN timestamp
        ELSE Return(Join(Join(Join(Join(save_dir, Chars(page_name)), year), month),
                         Chars(revision_id.val) \o Chars(".xml")))

\* construct_path on every page title, root and sample fragment, computed
\* once.
Constructed ==
    [page_name \in Pages \cup PathPages, save_dir \in PathDirs,
     wiki_revision \in PathFragments |->
        construct_path(page_name, save_dir, wiki_revision)]

\* Mutant of validate_page: the missing page element is not reported.
validate_page_lenient(page_name, page_xml) == Return(TRUE)

\* validate_page: the ValueError of the missing page element is replaced
validate_page(page_name, page_xml) ==
    IF extract_attribute(page_xml, "page").ok THEN Return(TRUE)
    ELSE Raise(PageNotFound(page_name))

\* --------------------------------------------------------------- file store

EmptyFS == [dirs |-> {}, files |-> <<>>]

Entries(fsys) == fsys.dirs \cup DOMAIN fsys.files

\* The working directory (the empty path) and the root are always there.
isdir(fsys, p) == p \in {<<>>, << <<"/">> >>, << <<"/", "/">> >>} \/ p \in fsys.dirs
isfile(fsys, p) == p \in DOMAIN fsys.files
exists(fsys, p) == isdir(fsys, p) \/ isfile(fsys, p)

parent(p) == SubSeq(p, 1, Len(p) - 1)

Prefixes(p) == {SubSeq(p, 1, k) : k \in 1..Len(p)}

\* The store an operation that raised has left behind.
RaiseAfter(e, fsys) == [ok |-> FALSE, err |-> e, val |-> fsys]

\* A file that was created or truncated and not written.
EmptyFile == [text |-> ""]

\* The store with the file p holding data.
WithFile(fsys, p, data) ==
    [fsys EXCEPT !.files = [q \in DOMAIN fsys.files \cup {p} |->
                               IF q = p THEN data ELSE fsys.files[q]]]

\* str.encode in the encoding of the file: every character of the fragment
\* has to be one the encoding has.
CanEncode(enc, data) ==
    \/ enc = "utf-8"
    \/ \A k \in DOMAIN data : \A i \in DOMAIN Chars(data[k]) : IsAscii(Chars(data[k])[i])

\* Mutant of mkdir: parents=True is forgotten.
mkdir_no_parents(fsys, p) ==
    IF isfile(fsys, p) THEN Raise(FileExists)
    ELSE IF ~isdir(fsys, SubSeq(p, 1, Len(p) - 1)) THEN Raise(FileNotFound)
    ELSE Return([fsys EXCEPT !.dirs = @ \cup {p}])

\* Path.mkdir(parents=True, exist_ok=True)
mkdir(fsys, p) ==
    IF isfile(fsys, p) THEN Raise(FileExists)
    ELSE IF \E q \in Prefixes(p) : isfile(fsys, q) THEN Raise(NotADirectory)
    ELSE Return([fsys EXCEPT !.dirs = @ \cup Prefixes(p)])

\* Mutant of write_text: the file is created or truncated and left empty.
write_text_empty(fsys, p, data, enc) ==
    IF isdir(fsys, p) THEN RaiseAfter(IsADirectory, fsys)
    ELSE IF ~isdir(fsys, SubSeq(p, 1, Len(p) - 1)) THEN RaiseAfter(FileNotFound, fsys)
    ELSE Return([fsys EXCEPT !.files =
                    [q \in DOMAIN fsys.files \cup {p} |->
                        IF q = p THEN [text |-> ""] ELSE fsys.files[q]]])

\* Path.write_text(data), no encoding given: open(mode "w") creates or
\* truncates the file, then the text is encoded in the locale's encoding and
\* written; a text the encoding cannot encode raises with the file empty.
write_text(fsys, p, data, enc) ==
    IF isdir(fsys, p) THEN RaiseAfter(IsADirectory, fsys)
    ELSE IF \E q \in Prefixes(parent(p)) : isfile(fsys, q)
    THEN RaiseAfter(NotADirectory, fsys)
    ELSE IF ~isdir(fsys, parent(p)) THEN RaiseAfter(FileNotFound, fsys)
    ELSE IF ~CanEncode(enc, data)
    THEN RaiseAfter(UnicodeEncodeError, WithFile(fsys, p, EmptyFile))
    ELSE Return(WithFile(fsys, p, data))

\* Mutant of save_revision: the file is opened for exclusive creation.
save_revision_exclusive(fsys, revision_path, wiki_revision, enc) ==
    IF isfile(fsys, revision_path) THEN RaiseAfter(FileExists, fsys)
    ELSE IF isdir(fsys, revision_path) THEN RaiseAfter(IsADirectory, fsys)
    ELSE IF isfile(fsys, SubSeq(revision_path, 1, Len(revision_path) - 1))
    THEN RaiseAfter(FileExists, fsys)
    ELSE IF \E q \in Prefixes(SubSeq(revision_path, 1, Len(revision_path) - 1)) :
                isfile(fsys, q)
    THEN RaiseAfter(NotADirectory, fsys)
    ELSE [ok  |-> CanEncode(enc, wiki_revision),
          err |-> UnicodeEncodeError,
          val |-> [dirs  |-> fsys.dirs
                               \cup Prefixes(SubSeq(revision_path, 1, Len(revision_path) - 1)),
                   files |-> [q \in DOMAIN fsys.files \cup {revision_path} |->
                                IF q = revision_path
                                THEN (IF CanEncode(enc, wiki_revision) THEN wiki_revision
                                      ELSE EmptyFile)
                                ELSE fsys.files[q]]]]

\* The body of main's loop after construct_path: lines 76-78.
save_revision(fsys, revision_path, wiki_revision, enc) ==
    LET made == IF ~exists(fsys, revision_path)
                THEN mkdir(fsys, parent(revision_path))
                ELSE Return(fsys)
    IN  IF ~made.ok THEN RaiseAfter(made.err, fsys)
        ELSE write_text(made.val, revision_path, wiki_revision, enc)

\* os.listdir(path) joined with the path
listdir(fsys, p) ==
    {q \in Entries(fsys) : Len(q) = Len(p) + 1 /\ SubSeq(q, 1, Len(p)) = p}

\* Mutant of CountsFolders: the flag is tested for truth, "if folders:".
CountsFoldersTruthy(flag) == flag.type \in {"str", "bool"}

\* if folders == "True"
CountsFolders(flag) == flag = StrFlag("True")

\* count = 0; for item in ...: count += ...: the sum of what each entry adds
RECURSIVE SumOver(_, _)
SumOver(f, S) ==
    IF S = {} THEN 0
    ELSE LET x == CHOOSE y \in S : TRUE
         IN  f[x] + SumOver(f, S \ {x})

\* Mutant of count_item: the subdirectories are not entered.
count_item_flat(fsys, item_path, flag) ==
    IF item_path \in fsys.dirs
    THEN (IF flag = [type |-> "str", val |-> "True"] THEN 1 ELSE 0)
    ELSE 1

RECURSIVE count_revisions(_, _, _)

\* What one entry of the directory adds to the count: lines 93-98.
count_item(fsys, item_path, flag) ==
    IF isdir(fsys, item_path)
    THEN (IF CountsFolders(flag) THEN 1 ELSE 0)
             + count_revisions(fsys, item_path, flag).val
    ELSE 1

\* os.listdir raises NotADirectoryError when the path or a directory of the
\* path is a regular file, FileNotFoundError when the path is not there.
count_revisions(fsys, path_to_subfolder, flag) ==
    IF \E q \in Prefixes(path_to_subfolder) : isfile(fsys, q) THEN Raise(NotADirectory)
    ELSE IF ~isdir(fsys, path_to_subfolder) THEN Raise(FileNotFound)
    ELSE Return(SumOver([item_path \in listdir(fsys, path_to_subfolder) |->
                            count_item(fsys, item_path, flag)],
                        listdir(fsys, path_to_subfolder)))

\* ------------------------------------------------------------------- main

\* The command line of the script, the same in every run of a behaviour:
\* the page title and the value of --count_folders.
Init ==
    /\ page \in Pages
    /\ data_dir = DATA_DIR
    /\ folders \in FlagValues
    /\ encoding = "utf-8"
    /\ raw_revisions = NoText
    /\ idx = 1
    /\ fs = EmptyFS
    /\ fs0 = EmptyFS
    /\ pc = "idle"
    /\ err = ""
    /\ result = <<>>

\* main is called (a new run of the script): lines 67-69, the arguments of
\* the command line and the locale of the run
Call(enc) ==
    /\ data_dir' = DATA_DIR
    /\ encoding' = enc
    /\ idx' = 1
    /\ fs0' = fs
    /\ result' = <<>>
    /\ UNCHANGED <<page, folders, fs>>

\* download_page_w_revisions: response.raise_for_status() raises
DownloadRaises ==
    /\ pc = "idle"
    /\ \E enc \in Encodings :
        /\ Call(enc)
        /\ raw_revisions' = NoText
        /\ pc' = "failed"
        /\ err' = HTTPError

\* download_page_w_revisions returns response.text.  The limit sent with the
\* request only bounds how many revisions the server puts in the document.
DownloadReturns ==
    /\ pc = "idle"
    /\ \E enc \in Encodings, text \in Documents :
        /\ Call(enc)
        /\ raw_revisions' = text
        /\ pc' = "validate"
        /\ err' = ""

\* validate_page(page, page_xml=raw_revisions): line 70
ValidatePage ==
    /\ pc = "validate"
    /\ \E v \in {validate_page(page, raw_revisions)} :
          IF v.ok THEN pc' = "loop" /\ err' = ""
          ELSE pc' = "failed" /\ err' = v.err
    /\ UNCHANGED <<page, data_dir, folders, encoding, raw_revisions, idx, fs, fs0, result>>

\* Mutant of ProcessRevision: a fragment whose path cannot be built is
\* skipped and the loop goes on.
ProcessRevisionSkips ==
    /\ pc = "loop"
    /\ idx <= Len(parse_mediawiki_revisions(raw_revisions))
    /\ \E wiki_revision \in {parse_mediawiki_revisions(raw_revisions)[idx]} :
       \E revision_path \in {Constructed[page, data_dir, wiki_revision]} :
          IF ~revision_path.ok
          THEN pc' = "loop" /\ err' = "" /\ idx' = idx + 1 /\ UNCHANGED fs
          ELSE \E saved \in {save_revision(fs, revision_path.val, wiki_revision, encoding)} :
                  IF ~saved.ok
                  THEN pc' = "failed" /\ err' = saved.err /\ fs' = saved.val
                           /\ UNCHANGED idx
                  ELSE pc' = "loop" /\ err' = "" /\ fs' = saved.val /\ idx' = idx + 1
    /\ UNCHANGED <<page, data_dir, folders, encoding, raw_revisions, fs0, result>>

\* One pass of the for loop: lines 72-78.  An exception of construct_path
\* leaves the files alone; one of lines 76-78 leaves what was done before it
\* was raised.
ProcessRevision ==
    /\ pc = "loop"
    /\ idx <= Len(parse_mediawiki_revisions(raw_revisions))
    /\ \E wiki_revision \in {parse_mediawiki_revisions(raw_revisions)[idx]} :
       \E revision_path \in {Constructed[page, data_dir, wiki_revision]} :
          IF ~revision_path.ok
          THEN pc' = "failed" /\ err' = revision_path.err /\ UNCHANGED <<fs, idx>>
          ELSE \E saved \in {save_revision(fs, revision_path.val, wiki_revision, encoding)} :
                  IF ~saved.ok
                  THEN pc' = "failed" /\ err' = saved.err /\ fs' = saved.val
                           /\ UNCHANGED idx
                  ELSE pc' = "loop" /\ err' = "" /\ fs' = saved.val /\ idx' = idx + 1
    /\ UNCHANGED <<page, data_dir, folders, encoding, raw_revisions, fs0, result>>

\* The loop is exhausted: the final print with count_revisions, line 80
ReportCount ==
    /\ pc = "loop"
    /\ idx > Len(parse_mediawiki_revisions(raw_revisions))
    /\ \E path_to_subfolder \in {Join(data_dir, Chars(page))} :
       \E n \in {count_revisions(fs, path_to_subfolder, folders)} :
          IF n.ok THEN pc' = "done" /\ err' = "" /\ result' = <<n.val>>
          ELSE pc' = "failed" /\ err' = n.err /\ result' = <<>>
    /\ UNCHANGED <<page, data_dir, folders, encoding, raw_revisions, idx, fs, fs0>>

\* The script ends, with the report or with the exception; what is left of
\* the run is the file store.
Exit ==
    /\ pc \in {"done", "failed"}
    /\ pc' = "idle"
    /\ encoding' = "utf-8"
    /\ raw_revisions' = NoText
    /\ idx' = 1
    /\ err' = ""
    /\ result' = <<>>
    /\ fs0' = fs
    /\ UNCHANGED <<page, data_dir, folders, fs>>

Next ==
    \/ DownloadRaises
    \/ DownloadReturns
    \/ ValidatePage
    \/ ProcessRevision
    \/ ReportCount
    \/ Exit

Spec == Init /\ [][Next]_vars

\* The runs of the script without --count_folders.
InitFair == Init /\ folders = NoneFlag

\* A started run is not interrupted: each step of main follows the last.
FairSpec ==
    /\ InitFair
    /\ [][Next]_vars
    /\ WF_vars(ValidatePage)
    /\ WF_vars(ProcessRevision)
    /\ WF_vars(ReportCount)

\* ------------------------------------------------- construct_path by itself

\* construct_path applied to each fragment of a two-fragment list, for every
\* page title and root directory.
InitPath ==
    /\ page \in PathPages
    /\ data_dir \in PathDirs
    /\ folders = NoneFlag
    /\ encoding = "utf-8"
    /\ raw_revisions \in {WithPage(<<a, b>>) : a \in PathFragments, b \in PathFragments}
    /\ idx = 1
    /\ fs = EmptyFS
    /\ fs0 = EmptyFS
    /\ pc = "idle"
    /\ err = ""
    /\ result = <<>>

ConstructPaths ==
    /\ pc = "idle"
    /\ pc' = "paths"
    /\ result' = [i \in DOMAIN raw_revisions.revision |->
                     construct_path(page, data_dir, raw_revisions.revision[i])]
    /\ UNCHANGED <<page, data_dir, folders, encoding, raw_revisions, idx, fs, fs0, err>>

NextPath == ConstructPaths

SpecPath == InitPath /\ [][NextPath]_vars

\* ------------------------------------------------- count_revisions by itself

\* The directory trees count_revisions is tried on: entries below a root,
\* each absent, a file or a directory, inside directories only.
TreeRoot == Join(DATA_DIR, Chars("Oxford"))

Dir1 == <<"d", "1">>
Dir2 == <<"d", "2">>

TreeEntries ==
    { TreeRoot \o << <<"a">> >>, TreeRoot \o << <<"b">> >>, TreeRoot \o << <<"c">> >>,
      TreeRoot \o <<Dir1>>, TreeRoot \o <<Dir2>>,
      TreeRoot \o <<Dir1, <<"x">> >>, TreeRoot \o <<Dir2, <<"x">> >>,
      TreeRoot \o <<Dir1, <<"x">>, <<"y">> >> }

TreeShapes ==
    { t \in [TreeEntries -> {"absent", "file", "dir"}] :
        \A e \in TreeEntries :
            (t[e] # "absent" /\ parent(e) # TreeRoot) => t[parent(e)] = "dir" }

TreeOf(t) ==
    [dirs  |-> Prefixes(TreeRoot) \cup {e \in TreeEntries : t[e] = "dir"},
     files |-> [e \in {x \in TreeEntries : t[x] = "file"} |-> RevA1]]

\* A regular file where the root, or a directory of the root's path, should be.
BlockedTrees ==
    { [dirs |-> {}, files |-> (DATA_DIR :> RevA1)],
      [dirs |-> {DATA_DIR}, files |-> (TreeRoot :> RevA1)] }

InitCount ==
    /\ page = "Oxford"
    /\ data_dir = DATA_DIR
    /\ folders \in FlagValues
    /\ encoding = "utf-8"
    /\ raw_revisions = NoText
    /\ idx = 1
    /\ fs \in {TreeOf(t) : t \in TreeShapes} \cup {EmptyFS} \cup BlockedTrees
    /\ fs0 = fs
    /\ pc = "idle"
    /\ err = ""
    /\ result = <<>>

CountTree ==
    /\ pc = "idle"
    /\ \E n \in {count_revisions(fs, TreeRoot, folders)} :
          IF n.ok THEN pc' = "counted" /\ err' = "" /\ result' = <<n.val>>
          ELSE pc' = "failed" /\ err' = n.err /\ result' = <<>>
    /\ UNCHANGED <<page, data_dir, folders, encoding, raw_revisions, idx, fs, fs0>>

NextCount == CountTree

SpecCount == InitCount /\ [][NextCount]_vars

\* ------------------------------------------------------ what the claims use

\* The year and month segments each sample timestamp of the format stands for.
YearMonth ==
    ("2020-01-15T10:00:00Z" :> <<"2020", "01">>)
    @@ ("2020-1-05T09:30:00Z" :> <<"2020", "01">>)
    @@ ("2020-02-03T08:15:30Z" :> <<"2020", "02">>)
    @@ ("2020-2-29T23:59:5{U+0669}Z" :> <<"2020", "02">>)
    @@ ("2021-11-30T00:00:00Z" :> <<"2021", "11">>)
    @@ ("{U+FF12}{U+FF10}{U+FF12}{U+FF10}-01-15T10:00:00Z" :> <<"2020", "01">>)
    @@ ("2020-03-1{U+0663}T0{U+0663}:{U+0663}:0{U+0663}Z" :> <<"2020", "03">>)
    @@ ("2020-01-15t10:00:00z" :> <<"2020", "01">>)
    @@ ("2020-01- 5T10:00:00Z" :> <<"2020", "01">>)
    @@ ("0005-01-15T10:00:00Z" :> <<"5", "01">>)

\* The error strptime ends with on each of the other sample timestamps.
TimestampError ==
    ("2020-13-01T00:00:00Z" :>
        "ValueError: time data '2020-13-01T00:00:00Z' does not match format '%Y-%m-%dT%H:%M:%SZ'")
    @@ ("2021-02-30T00:00:00Z" :> "ValueError: day is out of range for month")
    @@ ("15/01/2020" :>
        "ValueError: time data '15/01/2020' does not match format '%Y-%m-%dT%H:%M:%SZ'")
    @@ ("2020-01-15T10:00:00" :>
        "ValueError: time data '2020-01-15T10:00:00' does not match format '%Y-%m-%dT%H:%M:%SZ'")
    @@ ("2020-{U+0660}1-15T10:00:00Z" :>
        "ValueError: time data '2020-{U+0660}1-15T10:00:00Z' does not match format '%Y-%m-%dT%H:%M:%SZ'")
    @@ ("2020-01-15T10:00:00ZZ" :> "ValueError: unconverted data remains: Z")
    @@ ("2020-01-15T10:00:00Z " :> "ValueError: unconverted data remains:  ")
    @@ ("2020-01-15T10:00:60Z" :> "ValueError: second must be in 0..59")
    @@ ("0000-01-15T10:00:00Z" :> "ValueError: year 0 is out of range")
    @@ ("2020-01-15T24:00:00Z" :>
        "ValueError: time data '2020-01-15T24:00:00Z' does not match format '%Y-%m-%dT%H:%M:%SZ'")
    @@ ("it's 2020" :>
        "ValueError: time data \"it's 2020\" does not match format '%Y-%m-%dT%H:%M:%SZ'")
    @@ ("2020\\01\\15" :>
        "ValueError: time data '2020\\\\01\\\\15' does not match format '%Y-%m-%dT%H:%M:%SZ'")
    @@ ("'\"" :>
        "ValueError: time data '\\'\"' does not match format '%Y-%m-%dT%H:%M:%SZ'")
    @@ ("2020-01-15\n" :>
        "ValueError: time data '2020-01-15\\n' does not match format '%Y-%m-%dT%H:%M:%SZ'")
    @@ ("2020-01-15T10:00:00Z\n" :>
        "ValueError: unconverted data remains: \n")
    @@ ("2020-01-15T10:00:00Z'" :>
        "ValueError: unconverted data remains: '")
    @@ ("2020\t01\r15" :>
        "ValueError: time data '2020\\t01\\r15' does not match format '%Y-%m-%dT%H:%M:%SZ'")
    @@ ("2020-01-15\f" :>
        "ValueError: time data '2020-01-15\\x0c' does not match format '%Y-%m-%dT%H:%M:%SZ'")
    @@ ("{U+00A0}2020" :>
        "ValueError: time data '\\xa02020' does not match format '%Y-%m-%dT%H:%M:%SZ'")
    @@ ("2020-01-15{U+2028}" :>
        "ValueError: time data '2020-01-15\\u2028' does not match format '%Y-%m-%dT%H:%M:%SZ'")
    @@ ("2020-01-15{U+E0001}" :>
        "ValueError: time data '2020-01-15\\U000e0001' does not match format '%Y-%m-%dT%H:%M:%SZ'")
    @@ ("2020-01-15{U+00E9}" :>
        "ValueError: time data '2020-01-15{U+00E9}' does not match format '%Y-%m-%dT%H:%M:%SZ'")
    @@ ("20200115" :>
        "ValueError: time data '2020\\x7f01\\x1b15' does not match format '%Y-%m-%dT%H:%M:%SZ'")
    @@ ("it's 2020{U+00AD}01" :>
        "ValueError: time data \"it's 2020\\xad01\" does not match format '%Y-%m-%dT%H:%M:%SZ'")

\* A fragment that carries an id and a timestamp of the expected format.
WellFormed(f) ==
    /\ "id" \in DOMAIN f
    /\ "timestamp" \in DOMAIN f
    /\ f.timestamp \in DOMAIN YearMonth

\* The path named root/page/year/month/id.xml: each of the five beneath the
\* one before it.
ExpectedPath(root, pg, f) ==
    root \o Segments(Chars(pg))
         \o <<Chars(YearMonth[f.timestamp][1]), Chars(YearMonth[f.timestamp][2])>>
         \o Segments(Chars(f.id) \o Chars(".xml"))

NoSlash(text) == \A i \in DOMAIN Chars(text) : Chars(text)[i] # "/"

IsBelow(root, p) == Len(p) > Len(root) /\ SubSeq(p, 1, Len(root)) = root

NFilesBelow(fsys, root) == Cardinality({p \in DOMAIN fsys.files : IsBelow(root, p)})

NDirsBelow(fsys, root) == Cardinality({p \in fsys.dirs : IsBelow(root, p)})

HasPage == "page" \in DOMAIN raw_revisions

Revs == raw_revisions.revision

\* The directory main counts: data_dir / page.
PageDir == Join(data_dir, Chars(page))

\* The path construct_path gives a well-formed fragment in this run.
PathOf(f) == Constructed[page, data_dir, f].val

AllWellFormed == \A i \in DOMAIN Revs : WellFormed(Revs[i])

\* The position of the first fragment that is not well-formed, 0 if none.
FirstBad ==
    IF AllWellFormed THEN 0
    ELSE CHOOSE k \in DOMAIN Revs :
            /\ ~WellFormed(Revs[k])
            /\ \A i \in 1..(k - 1) : WellFormed(Revs[i])

ExpectedError(f) ==
    IF "id" \notin DOMAIN f THEN AttributeNotFound("id")
    ELSE IF "timestamp" \notin DOMAIN f THEN AttributeNotFound("timestamp")
    ELSE TimestampError[f.timestamp]

\* A timestamp written as YYYY-MM-DDTHH:MM:SSZ, every field at its full
\* width in the digits 0-9, that names a date and a time of day.
SameShape(s) ==
    /\ Len(s) = 20
    /\ \A i \in {1, 2, 3, 4, 6, 7, 9, 10, 12, 13, 15, 16, 18, 19} :
           \E d \in 1..10 : s[i] = Digits[d]
    /\ s[5] = "-" /\ s[8] = "-" /\ s[11] = "T"
    /\ s[14] = ":" /\ s[17] = ":" /\ s[20] = "Z"

MatchesFormat(f) ==
    /\ WellFormed(f)
    /\ SameShape(Chars(f.timestamp))

\* The position of the first fragment without an id or without a timestamp
\* written as YYYY-MM-DDTHH:MM:SSZ, 0 if none.
FirstUnmatched ==
    IF \A i \in DOMAIN Revs : MatchesFormat(Revs[i]) THEN 0
    ELSE CHOOSE k \in DOMAIN Revs :
            /\ ~MatchesFormat(Revs[k])
            /\ \A i \in 1..(k - 1) : MatchesFormat(Revs[i])

\* The sample fragments with a character outside ASCII: the ones an ASCII
\* locale cannot write.
OutsideAscii == {RevB, RevC, RevWide, RevArabic, RevArabicMonth, RevNoBreakSpace,
                 RevLineSeparator, RevLanguageTag, RevAccent, RevSoftHyphen}

Unencodable(f) == encoding = "ascii" /\ f \in OutsideAscii

\* The files are those of the start of the run, those of fragments 1..k and
\* the torn ones: a torn file is empty, every other file holds what it held
\* at the start or the text of one of those fragments.
WrittenOnly(k, torn) ==
    /\ DOMAIN fs.files = DOMAIN fs0.files \cup {PathOf(Revs[i]) : i \in 1..k} \cup torn
    /\ \A p \in DOMAIN fs.files :
           IF p \in torn THEN fs.files[p] = EmptyFile
           ELSE \/ p \in DOMAIN fs0.files /\ fs.files[p] = fs0.files[p]
                \/ \E i \in 1..k : PathOf(Revs[i]) = p /\ fs.files[p] = Revs[i]

\* What stands in the way of writing the fragment f in the file store fsys.
IsTorn(fsys, f)     == isfile(fsys, PathOf(f)) /\ fsys.files[PathOf(f)] = EmptyFile
IsWritten(fsys, f)  == isfile(fsys, PathOf(f)) /\ fsys.files[PathOf(f)] = f
DirAtPath(fsys, f)  == PathOf(f) \in fsys.dirs
FileAtParent(fsys, f) == isfile(fsys, parent(PathOf(f)))
FileAbove(fsys, f)  == \E q \in Prefixes(parent(parent(PathOf(f)))) : isfile(fsys, q)

\* The run was ended by the write of fragment idx: the error is the write's
\* own, its cause is there, and the fragments before it are written.
WriteFailed ==
    /\ pc = "failed"
    /\ idx \in DOMAIN Revs
    /\ result = <<>>
    /\ \/ /\ err = UnicodeEncodeError
          /\ Unencodable(Revs[idx])
          /\ WrittenOnly(idx - 1, {PathOf(Revs[idx])})
       \/ /\ err = IsADirectory
          /\ DirAtPath(fs, Revs[idx])
          /\ WrittenOnly(idx - 1, {})
       \/ /\ err = FileExists
          /\ FileAtParent(fs, Revs[idx])
          /\ WrittenOnly(idx - 1, {})
       \/ /\ err = NotADirectory
          /\ FileAbove(fs, Revs[idx])
          /\ WrittenOnly(idx - 1, {})

\* The run was ended by os.listdir: the loop is finished and no directory
\* stands at data_dir / page.
CountFailed ==
    /\ pc = "failed"
    /\ idx = Len(Revs) + 1
    /\ result = <<>>
    /\ ~isdir(fs, PageDir)
    /\ err = IF \E q \in Prefixes(PageDir) : isfile(fs, q) THEN NotADirectory
             ELSE FileNotFound
    /\ WrittenOnly(Len(Revs), {})

\* The run reported the count: the loop is finished and every fragment is
\* written.
Reported ==
    /\ pc = "done"
    /\ idx = Len(Revs) + 1
    /\ err = ""
    /\ Len(result) = 1
    /\ \A i \in DOMAIN Revs : ~Unencodable(Revs[i])
    /\ WrittenOnly(Len(Revs), {})

\* ------------------------------------------------------------------- claims

\* C1: in main's loop a file that already exists at a revision's target path
\* is never overwritten: every file keeps its content over every step.
C1_NeverOverwritten ==
    [][\A p \in DOMAIN fs.files :
           p \in DOMAIN fs'.files /\ fs'.files[p] = fs.files[p]]_vars

\* The tree with 3 files and 2 subdirectories of 1 file each.
ThreeAndTwo ==
    TreeOf([e \in TreeEntries |->
               IF e \in {TreeRoot \o <<Dir1>>, TreeRoot \o <<Dir2>>} THEN "dir"
               ELSE IF e = TreeRoot \o <<Dir1, <<"x">>, <<"y">> >> THEN "absent"
               ELSE "file"])

\* C2: count_revisions returns the number of files at any depth below the
\* root when folders are not counted, and that plus the number of directories
\* strictly below the root when they are; 0 for an empty directory; 5 and 7
\* for the tree of 3 files and 2 subdirectories of 1 file each.
C2_CountsTree ==
    pc = "counted" =>
        /\ folders = StrFlag("True") =>
               result = <<NFilesBelow(fs, TreeRoot) + NDirsBelow(fs, TreeRoot)>>
        /\ folders \in {StrFlag("False"), NoneFlag} =>
               result = <<NFilesBelow(fs, TreeRoot)>>
        /\ (\A p \in Entries(fs) : ~IsBelow(TreeRoot, p)) => result = <<0>>
        /\ (fs = ThreeAndTwo /\ folders = StrFlag("False")) => result = <<5>>
        /\ (fs = ThreeAndTwo /\ folders = StrFlag("True")) => result = <<7>>

C2_Witness ==
    /\ pc = "counted"
    /\ fs = ThreeAndTwo
    /\ folders = StrFlag("True")
    /\ result = <<7>>

\* C3: for every page title, root and fragment with id I and a well-formed
\* timestamp T, construct_path returns root/page/year(T)/zero-padded
\* month(T)/I.xml, whatever else the fragment holds.
C3_PathFormat ==
    pc = "paths" =>
        \A i \in DOMAIN result :
            WellFormed(Revs[i]) =>
                result[i] = Return(ExpectedPath(data_dir, page, Revs[i]))

\* C4: a run fails with the page-not-found error exactly when the document
\* has no page element; then, and when the download fails, the loop was not
\* entered: the file store is as at the start and nothing was counted.
C4_PageNotFound ==
    /\ (pc \in {"loop", "done", "failed"} /\ err # HTTPError) =>
           (err = PageNotFound(page) <=> ~HasPage)
    /\ err \in {PageNotFound(page), HTTPError} =>
           (pc = "failed" /\ fs = fs0 /\ idx = 1 /\ result = <<>>)

C4_Witness ==
    /\ pc = "failed"
    /\ err = PageNotFound("Oxford")
    /\ Len(Revs) = 1
    /\ WellFormed(Revs[1])
    /\ DOMAIN fs0.files # {}
    /\ fs = fs0

\* C5 as stated: when fragment k is the first without an id or without a
\* timestamp written as YYYY-MM-DDTHH:MM:SSZ, the run ends at fragment k and
\* nowhere else: the loop never gets past k, the count is never reported, a
\* run that has ended has ended at k, and the files are those of the start of
\* the run and of the fragments before the one the loop is at.
C5_AbortAtFirstBad ==
    (pc \in {"loop", "done", "failed"} /\ HasPage /\ FirstUnmatched > 0) =>
        /\ idx <= FirstUnmatched
        /\ pc # "done"
        /\ result = <<>>
        /\ pc = "failed" => idx = FirstUnmatched
        /\ WrittenOnly(idx - 1, {})

\* C5, amended: when fragment k is the first without an id, without a
\* timestamp or with a timestamp strptime rejects, the loop never gets past
\* k and the count is never reported; a run that ends at k ends with that
\* fragment's own error and the files of the start and of fragments 1..k-1;
\* a run that ends before k was ended by the write of the fragment it is at.
C5_EndsByFirstBad ==
    (pc \in {"loop", "done", "failed"} /\ HasPage /\ FirstBad > 0) =>
        /\ idx <= FirstBad
        /\ pc # "done"
        /\ result = <<>>
        /\ pc = "loop" => WrittenOnly(idx - 1, {})
        /\ (pc = "failed" /\ idx = FirstBad) =>
               /\ err = ExpectedError(Revs[FirstBad])
               /\ WrittenOnly(FirstBad - 1, {})
        /\ (pc = "failed" /\ idx < FirstBad) => WriteFailed

C5_Witness ==
    /\ pc = "failed"
    /\ HasPage
    /\ Revs = <<RevA1, RevB, RevBadTs>>
    /\ encoding = "utf-8"
    /\ idx = 3
    /\ err = TimestampError["2020-13-01T00:00:00Z"]
    /\ fs0 = EmptyFS
    /\ DOMAIN fs.files = {PathOf(RevA1), PathOf(RevB)}

\* C6 as stated: a run whose download succeeded, whose document has a page
\* element and whose fragments are all well-formed never ends with an error.
C6_NeverFails ==
    ~(pc = "failed" /\ HasPage /\ AllWellFormed)

\* C6, amended: such a run ends, and in one of three ways: the count is
\* reported after every fragment was written; or the write of a fragment
\* failed, with the write's own error and its cause in the file store; or
\* os.listdir failed because no directory stands at data_dir / page.
C6_ReportsOrRaises ==
    /\ []((pc \in {"done", "failed"} /\ HasPage /\ AllWellFormed) =>
             (Reported \/ WriteFailed \/ CountFailed))
    /\ (pc = "validate" /\ HasPage /\ AllWellFormed) ~> (pc \in {"done", "failed"})

C6_Witness ==
    /\ pc = "failed"
    /\ HasPage
    /\ Revs = <<RevA1, RevC>>
    /\ encoding = "ascii"
    /\ fs0 = EmptyFS
    /\ WriteFailed
    /\ err = UnicodeEncodeError
    /\ fs.files[PathOf(RevC)] = EmptyFile

\* C7 as stated: from an empty file store, a finished run over N >= 1
\* well-formed revisions of pairwise distinct ids leaves exactly N files, one
\* per revision at its path holding the fragment's text, in as many month
\* directories as there are distinct (year, month) pairs, and the count
\* without folders is N.
C7_FreshRun ==
    (/\ pc = "done"
     /\ fs0 = EmptyFS
     /\ Len(Revs) >= 1
     /\ AllWellFormed
     /\ \A i, j \in DOMAIN Revs : i # j => Revs[i].id # Revs[j].id) =>
        /\ DOMAIN fs.files = {PathOf(Revs[i]) : i \in DOMAIN Revs}
        /\ Cardinality(DOMAIN fs.files) = Len(Revs)
        /\ \A i \in DOMAIN Revs : fs.files[PathOf(Revs[i])] = Revs[i]
        /\ folders # StrFlag("True") => result = <<Len(Revs)>>

\* C7, amended: the same of revisions whose ids hold no "/": N files below
\* data_dir / page, one per revision at its path holding the fragment's
\* text, in as many month directories as there are distinct (year, month)
\* pairs, and the count without folders is N.
C7_FreshRunPlainIds ==
    (/\ pc = "done"
     /\ fs0 = EmptyFS
     /\ Len(Revs) >= 1
     /\ AllWellFormed
     /\ \A i \in DOMAIN Revs : NoSlash(Revs[i].id)
     /\ \A i, j \in DOMAIN Revs : i # j => Revs[i].id # Revs[j].id) =>
        /\ DOMAIN fs.files = {PathOf(Revs[i]) : i \in DOMAIN Revs}
        /\ Cardinality(DOMAIN fs.files) = Len(Revs)
        /\ \A p \in DOMAIN fs.files : IsBelow(PageDir, p) /\ Len(p) = Len(PageDir) + 3
        /\ \A i \in DOMAIN Revs : fs.files[PathOf(Revs[i])] = Revs[i]
        /\ Cardinality({d \in fs.dirs : IsBelow(PageDir, d) /\ Len(d) = Len(PageDir) + 2})
               = Cardinality({YearMonth[Revs[i].timestamp] : i \in DOMAIN Revs})
        /\ folders # StrFlag("True") => result = <<Len(Revs)>>

C7_Witness ==
    /\ pc = "done"
    /\ fs0 = EmptyFS
    /\ Revs = <<RevC, RevB, RevA1>>
    /\ Cardinality(DOMAIN fs.files) = 3
    /\ Cardinality({d \in fs.dirs : IsBelow(PageDir, d) /\ Len(d) = Len(PageDir) + 2}) = 2
    /\ folders = StrFlag("False")
    /\ result = <<3>>

\* C8 as stated: processing a fragment whose file is there as a processing
\* of that fragment leaves it (holding the fragment's text, or empty) raises
\* no error and changes nothing in the file store.
C8_Idempotent ==
    [][(/\ pc = "loop"
        /\ idx <= Len(Revs)
        /\ WellFormed(Revs[idx])
        /\ IsWritten(fs, Revs[idx]) \/ IsTorn(fs, Revs[idx])) =>
          (pc' = "loop" /\ err' = "" /\ fs' = fs)]_vars

\* C8, amended: in the encoding of the run, processing a fragment whose
\* path holds a file leaves the fragment's text in it and raises no error,
\* or, when the encoding cannot encode the text, leaves it empty and raises
\* UnicodeEncodeError, and changes nothing else; with a directory at the
\* path, or a regular file in the place of a directory of the path, it
\* raises and changes nothing.  Every processing leaves the file store in
\* one of these states, the one in which processing the fragment again ends
\* as it did and changes nothing.
C8_SecondAsFirst ==
    [][(pc = "loop" /\ idx <= Len(Revs) /\ WellFormed(Revs[idx])) =>
          LET f == Revs[idx]
          IN  /\ (isfile(fs, PathOf(f)) /\ ~Unencodable(f)) =>
                     /\ pc' = "loop" /\ err' = "" /\ idx' = idx + 1
                     /\ fs' = [fs EXCEPT !.files[PathOf(f)] = f]
              /\ (isfile(fs, PathOf(f)) /\ Unencodable(f)) =>
                     /\ pc' = "failed" /\ err' = UnicodeEncodeError
                     /\ fs' = [fs EXCEPT !.files[PathOf(f)] = EmptyFile]
              /\ DirAtPath(fs, f) =>
                     (pc' = "failed" /\ err' = IsADirectory /\ fs' = fs)
              /\ FileAtParent(fs, f) =>
                     (pc' = "failed" /\ err' = FileExists /\ fs' = fs)
              /\ FileAbove(fs, f) =>
                     (pc' = "failed" /\ err' = NotADirectory /\ fs' = fs)
              /\ pc' = "loop" => (IsWritten(fs', f) /\ ~Unencodable(f))
              /\ pc' = "failed" =>
                     \/ err' = UnicodeEncodeError /\ IsTorn(fs', f) /\ Unencodable(f)
                     \/ err' = IsADirectory /\ DirAtPath(fs', f)
                     \/ err' = FileExists /\ FileAtParent(fs', f)
                     \/ err' = NotADirectory /\ FileAbove(fs', f)]_vars

C8_Witness ==
    /\ pc = "failed"
    /\ err = UnicodeEncodeError
    /\ idx = 2
    /\ encoding = "ascii"
    /\ Revs = <<RevA1, RevB>>
    /\ IsWritten(fs0, RevA1)
    /\ IsTorn(fs0, RevB)
    /\ fs = fs0

\* C9 as stated: two distinct well-formed revisions get distinct paths if and
\* only if their ids differ.
C9_IffDistinctIds ==
    (pc = "paths" /\ WellFormed(Revs[1]) /\ WellFormed(Revs[2]) /\ Revs[1] # Revs[2]) =>
        (result[1].val # result[2].val <=> Revs[1].id # Revs[2].id)

\* C9, amended: two well-formed revisions whose ids hold no "/" get the same
\* path if and only if they have the same id and the same year and month;
\* distinct ids are enough for distinct paths.
C9_SamePath ==
    (pc = "paths" /\ WellFormed(Revs[1]) /\ WellFormed(Revs[2])
        /\ NoSlash(Revs[1].id) /\ NoSlash(Revs[2].id)) =>
        /\ result[1].ok /\ result[2].ok
        /\ result[1].val = result[2].val <=>
               (/\ Revs[1].id = Revs[2].id
                /\ YearMonth[Revs[1].timestamp] = YearMonth[Revs[2].timestamp])

C9_Witness ==
    /\ pc = "paths"
    /\ Revs = <<RevA1, RevD>>
    /\ result[1].ok /\ result[2].ok
    /\ result[1].val # result[2].val

\* C10: count_revisions adds one per directory if and only if the flag is
\* the string "True", and main hands it its own argument: the reported count
\* is the files below the page's directory, plus the directories below it
\* only for that flag value.
C10_LiteralTrue ==
    pc = "done" =>
        result = <<NFilesBelow(fs, PageDir)
                     + (IF folders = StrFlag("True") THEN NDirsBelow(fs, PageDir) ELSE 0)>>

C10_Witness ==
    /\ pc = "done"
    /\ folders = BoolFlag
    /\ NDirsBelow(fs, PageDir) > 0
    /\ result = <<NFilesBelow(fs, PageDir)>>

====
